---- MODULE Spec2Model ----
(***************************************************************************)
(* Grease Burger analytics server (server.js): the /track ingestion        *)
(* handler, its validation and sanitization helpers, the four capped       *)
(* event sequences, the file they are persisted in, and the queries        *)
(* (/stats, /sessions, /spins, /bigwins, /health) computed from it.        *)
(*                                                                         *)
(* JavaScript values are tagged records ([t |-> "string", s |-> ...]).     *)
(* A string is the sequence of its UTF-16 code units, so the character     *)
(* classes of sanitize are the code ranges of its regular expressions.     *)
(* Numbers are integer valued; NaN and the infinities are values of their  *)
(* own.  Object keys are TLA+ strings.                                     *)
(***************************************************************************)
EXTENDS Integers, Sequences, FiniteSets, TLC

VARIABLES
    file,      \* contents of DATA_FILE: NoFile, or the document last written
    now,       \* the server clock: new Date() of the next request
    req,       \* req.body of the request handled last
    resp,      \* the response sent to it
    log,       \* history: the requests acknowledged with success, in order
    query,     \* the GET request handled last: its route and req.query
    answer,    \* the response sent to it
    received,  \* the POST /track requests that arrived while others were in
               \* flight, each marked once it is handled
    sanIn,     \* sanitize: the argument of the last call
    sanMax,    \* sanitize: its maxLength
    sanOut     \* sanitize: the string returned, NoCall before the call

vars == <<file, now, req, resp, log, query, answer, received, sanIn, sanMax, sanOut>>

Range(f) == {f[x] : x \in DOMAIN f}

Min(a, b) == IF a < b THEN a ELSE b

Max(a, b) == IF a > b THEN a ELSE b

\* the element of a singleton.  Only({F(x) : x \in {e}}) is F(e) with e worked
\* out once, as a const holds a value
Only(S) == CHOOSE x \in S : TRUE

(***************************************************************************)
(* JavaScript values                                                       *)
(***************************************************************************)
Undefined == [t |-> "undefined"]

Null == [t |-> "null"]

NaN == [t |-> "NaN"]

Infinity == [t |-> "Infinity"]

NegInfinity == [t |-> "-Infinity"]

Bool(b) == [t |-> "boolean", b |-> b]

Num(n) == [t |-> "number", n |-> n]

Str(s) == [t |-> "string", s |-> s]

Arr(a) == [t |-> "array", a |-> a]

Obj(f) == [t |-> "object", f |-> f]

\* the object with no own property, {}
EmptyObject == Obj([k \in {} |-> Undefined])

\* typeof v
TypeOf(v) ==
    CASE v.t \in {"number", "NaN", "Infinity", "-Infinity"} -> "number"
      [] v.t \in {"object", "array", "null"} -> "object"
      [] OTHER -> v.t

\* ToBoolean(v): what !v negates
Truthy(v) ==
    CASE v.t \in {"undefined", "null", "NaN"} -> FALSE
      [] v.t = "boolean" -> v.b
      [] v.t = "number" -> v.n # 0
      [] v.t = "string" -> v.s # <<>>
      [] OTHER -> TRUE

\* the decimal digits of a natural number
RECURSIVE NatToStr(_)
NatToStr(n) ==
    IF n < 10 THEN <<48 + n>> ELSE NatToStr(n \div 10) \o <<48 + (n % 10)>>

\* Object.keys(v) of an object or an array (an array's keys are its indices,
\* "0", "1", ...)
ObjectKeys(v) ==
    CASE v.t = "object" -> DOMAIN v.f
      [] v.t = "array" -> {ToString(i - 1) : i \in 1..Len(v.a)}
      [] OTHER -> {}

\* v[key] for a key no prototype defines: the own property, or undefined
Get(v, key) ==
    IF v.t = "object" /\ key \in DOMAIN v.f THEN v.f[key] ELSE Undefined

\* String(v); an array is its elements joined by commas, null and undefined
\* elements as the empty string
RECURSIVE StringOf(_)
StringOf(v) ==
    CASE v.t = "string" -> v.s
      [] v.t = "number" ->
            IF v.n < 0 THEN <<45>> \o NatToStr(0 - v.n) ELSE NatToStr(v.n)
      [] v.t = "NaN" -> <<78, 97, 78>>
      [] v.t = "Infinity" -> <<73, 110, 102, 105, 110, 105, 116, 121>>
      [] v.t = "-Infinity" -> <<45, 73, 110, 102, 105, 110, 105, 116, 121>>
      [] v.t = "null" -> <<110, 117, 108, 108>>
      [] v.t = "undefined" -> <<117, 110, 100, 101, 102, 105, 110, 101, 100>>
      [] v.t = "boolean" ->
            IF v.b THEN <<116, 114, 117, 101>> ELSE <<102, 97, 108, 115, 101>>
      [] v.t = "function" ->
            \* function name() { [native code] }
            <<102, 117, 110, 99, 116, 105, 111, 110, 32>> \o v.name
            \o <<40, 41, 32, 123, 32, 91, 110, 97, 116, 105, 118, 101, 32, 99,
                 111, 100, 101, 93, 32, 125>>
      [] v.t = "array" ->
            LET elem(i) == IF v.a[i].t \in {"null", "undefined"} THEN <<>>
                           ELSE StringOf(v.a[i])
                join[i \in 0..Len(v.a)] ==
                    IF i = 0 THEN <<>>
                    ELSE IF i = 1 THEN elem(1)
                    ELSE join[i - 1] \o <<44>> \o elem(i)
            IN join[Len(v.a)]
      [] OTHER -> <<91, 111, 98, 106, 101, 99, 116, 32, 79, 98, 106, 101, 99, 116, 93>>

\* s.slice(start, end) of a string or an array; a negative index counts from
\* the end
Slice(s, start, end) ==
    LET len == Len(s)
        from == IF start < 0 THEN Max(len + start, 0) ELSE Min(start, len)
        to == IF end < 0 THEN Max(len + end, 0) ELSE Min(end, len)
    IN IF from >= to THEN <<>> ELSE SubSeq(s, from + 1, to)

\* s.replace(/[class]/g, ''): every code unit of the class is removed
ReplaceAll(s, class) == SelectSeq(s, LAMBDA c : c \notin class)

\* s.replace(/[class]/, ''): without the g flag only the first match goes
ReplaceFirst(s, class) ==
    LET hits == {i \in 1..Len(s) : s[i] \in class}
    IN IF hits = {} THEN s
       ELSE LET i == CHOOSE h \in hits : \A g \in hits : h <= g
            IN SubSeq(s, 1, i - 1) \o SubSeq(s, i + 1, Len(s))

(***************************************************************************)
(* sanitize                                                                *)
(***************************************************************************)
\* /[<>'"&\\]/
SpecialChars == {60, 62, 39, 34, 38, 92}

\* /[\x00-\x1F\x7F]/
ControlChars == (0..31) \cup {127}

\* a slip in sanitize: the slice forgotten
sanitizeUncut(str, maxLength) ==
    IF str.t # "string" THEN <<>>
    ELSE ReplaceAll(ReplaceAll(str.s, SpecialChars), ControlChars)

\* a slip in sanitize: the g flag forgotten on the first replace
sanitizeFirstOnly(str, maxLength) ==
    IF str.t # "string" THEN <<>>
    ELSE ReplaceAll(ReplaceFirst(Slice(str.s, 0, maxLength), SpecialChars),
                    ControlChars)

\* sanitize(str, maxLength): the string returned
sanitize(str, maxLength) ==
    IF str.t # "string" THEN <<>>
    ELSE ReplaceAll(ReplaceAll(Slice(str.s, 0, maxLength), SpecialChars),
                    ControlChars)

(***************************************************************************)
(* validateNumber                                                          *)
(***************************************************************************)
\* StrWhiteSpaceChar that parseFloat skips in front (the ASCII ones)
WhiteSpace == {9, 10, 11, 12, 13, 32}

Digits == 48..57

\* the number of leading code units of s that are in class
RECURSIVE LeadLen(_, _)
LeadLen(s, class) ==
    IF s = <<>> \/ s[1] \notin class THEN 0 ELSE 1 + LeadLen(Tail(s), class)

\* the value of a sequence of decimal digits
RECURSIVE DigitsValue(_)
DigitsValue(d) ==
    IF d = <<>> THEN 0
    ELSE 10 * DigitsValue(SubSeq(d, 1, Len(d) - 1)) + (d[Len(d)] - 48)

\* the digits of radix 16, and the value of a sequence of them
HexDigits == (48..57) \cup (65..70) \cup (97..102)

RECURSIVE HexValue(_)
HexValue(d) ==
    IF d = <<>> THEN 0
    ELSE LET c == d[Len(d)]
             v == IF c <= 57 THEN c - 48 ELSE IF c <= 70 THEN c - 55 ELSE c - 87
         IN 16 * HexValue(SubSeq(d, 1, Len(d) - 1)) + v

\* parseFloat of a string: white space, a sign, then "Infinity" or the longest
\* prefix that is a decimal literal.  The literal is its integer part: strings
\* with a decimal point or an exponent after the digits are not among the inputs
ParseFloatStr(s) ==
    LET t == SubSeq(s, LeadLen(s, WhiteSpace) + 1, Len(s))
        neg == t # <<>> /\ t[1] = 45
        signed == t # <<>> /\ t[1] \in {43, 45}
        u == IF signed THEN Tail(t) ELSE t
        k == LeadLen(u, Digits)
    IN IF Slice(u, 0, 8) = <<73, 110, 102, 105, 110, 105, 116, 121>>
       THEN (IF neg THEN NegInfinity ELSE Infinity)
       ELSE IF k = 0 THEN NaN
       ELSE Num((IF neg THEN -1 ELSE 1) * DigitsValue(SubSeq(u, 1, k)))

\* parseFloat(val): a number is itself, anything else goes through String(val)
parseFloat(val) ==
    IF TypeOf(val) = "number" THEN val ELSE ParseFloatStr(StringOf(val))

\* a slip in validateNumber: the upper bound is not checked
validateNumberNoMax(val, min, max) ==
    LET num == parseFloat(val)
    IN IF num.t # "number" \/ num.n < min THEN Null ELSE num

\* validateNumber(val, min, max): the number, or null
validateNumber(val, min, max) ==
    LET num == parseFloat(val)
    IN IF num.t = "NaN" \/ num.t \in {"Infinity", "-Infinity"}
          \/ num.n < min \/ num.n > max
       THEN Null
       ELSE num

(***************************************************************************)
(* validateKeys and EVENT_SCHEMAS                                          *)
(***************************************************************************)
\* an array of key names, such as the values of EVENT_SCHEMAS
KeyArray(names) == [t |-> "keys", names |-> names]

S_Object == <<79, 98, 106, 101, 99, 116>>

\* a built-in function object of the given name
NativeFunction(name) == [t |-> "function", name |-> name]

\* a function object, such as Object.prototype.toString
Function == NativeFunction(S_Object)

S_visit == <<118, 105, 115, 105, 116>>

S_spin == <<115, 112, 105, 110>>

S_freeSpins == <<102, 114, 101, 101, 83, 112, 105, 110, 115>>

S_bigWin == <<98, 105, 103, 87, 105, 110>>

S_constructor == <<99, 111, 110, 115, 116, 114, 117, 99, 116, 111, 114>>

S_toString == <<116, 111, 83, 116, 114, 105, 110, 103>>

S_proto == <<95, 95, 112, 114, 111, 116, 111, 95, 95>>

\* names every object literal inherits from Object.prototype (some of them);
\* each is a function, but __proto__, which is Object.prototype itself
ObjectPrototypeNames == {S_constructor, S_toString, S_proto}

\* a slip in validateKeys: some allowed key is enough
validateKeysSome(obj, allowedKeys) ==
    IF ~Truthy(obj) \/ TypeOf(obj) # "object" THEN "false"
    ELSE IF ObjectKeys(obj) = {} THEN "true"
    ELSE IF allowedKeys.t # "keys" THEN "TypeError"
    ELSE IF \E key \in ObjectKeys(obj) : key \in allowedKeys.names THEN "true"
    ELSE "false"

\* validateKeys(obj, allowedKeys): "true" or "false", or "TypeError" when
\* allowedKeys.includes is called and is not a function (every calls it only
\* when there is a key)
validateKeys(obj, allowedKeys) ==
    IF ~Truthy(obj) \/ TypeOf(obj) # "object" THEN "false"
    ELSE IF ObjectKeys(obj) = {} THEN "true"
    ELSE IF allowedKeys.t # "keys" THEN "TypeError"
    ELSE IF \A key \in ObjectKeys(obj) : key \in allowedKeys.names THEN "true"
    ELSE "false"

\* EVENT_SCHEMAS: its own properties
EVENT_SCHEMAS ==
    [visit |-> {"sessionId", "userAgent", "screenSize", "referrer"},
     spin |-> {"sessionId", "bet", "win", "symbols"},
     freeSpins |-> {"sessionId", "mode", "totalWin", "spinsCount"},
     bigWin |-> {"sessionId", "tier", "amount"}]

\* the event kind a string names, "none" when it names none
KindOf(s) ==
    CASE s = S_visit -> "visit"
      [] s = S_spin -> "spin"
      [] s = S_freeSpins -> "freeSpins"
      [] s = S_bigWin -> "bigWin"
      [] OTHER -> "none"

\* EVENT_SCHEMAS[eventType] for a string eventType: an own property, else what
\* the prototype chain gives, else undefined
SchemaOf(eventType) ==
    IF KindOf(eventType.s) # "none"
    THEN KeyArray(EVENT_SCHEMAS[KindOf(eventType.s)])
    ELSE IF eventType.s \in ObjectPrototypeNames THEN Function
    ELSE Undefined

(***************************************************************************)
(* The store and its file                                                  *)
(***************************************************************************)
\* retention caps of the four sequences, scaled down from the 10000, 50000,
\* 5000 and 5000 of the source so that a run reaches them
VisitsCap == 2

SpinsCap == 3

FreeSpinsCap == 1

BigWinsCap == 1

\* field limits
SessionIdMax == 50

UserAgentMax == 300

ScreenSizeMax == 20

ReferrerMax == 200

ModeMax == 20

SymbolMax == 20

SymbolsMax == 18

BetMax == 10000

WinMax == 10000000

SpinsCountMax == 100

EmptyStore == [visits |-> <<>>, spins |-> <<>>, freeSpins |-> <<>>, bigWins |-> <<>>]

\* DATA_FILE absent, DATA_FILE cut short by a write that failed midway, and
\* DATA_FILE that cannot be read (a directory, or no permission)
NoFile == [t |-> "missing"]

TornFile == [t |-> "torn"]

UnreadableFile == [t |-> "unreadable"]

\* UTF-16 surrogates; one that is not half of a pair is a lone surrogate
HighSurrogates == 55296..56319

LowSurrogates == 56320..57343

LoneSurrogate(s, i) ==
    \/ s[i] \in HighSurrogates /\ (i = Len(s) \/ s[i + 1] \notin LowSurrogates)
    \/ s[i] \in LowSurrogates /\ (i = 1 \/ s[i - 1] \notin HighSurrogates)

\* the digit of radix 16 for n, in lower case, and \uXXXX for a code unit
HexDigit(n) == IF n < 10 THEN 48 + n ELSE 87 + n

UnicodeEscape(c) ==
    <<92, 117, HexDigit(c \div 4096), HexDigit((c \div 256) % 16),
      HexDigit((c \div 16) % 16), HexDigit(c % 16)>>

\* the sequences of a sequence one after another, the first n of them
RECURSIVE Concat(_, _)
Concat(parts, n) == IF n = 0 THEN <<>> ELSE Concat(parts, n - 1) \o parts[n]

\* what JSON.stringify writes for the code unit at i: \b \t \n \f \r \" \\,
\* \u00XX for another control character, \uXXXX for a lone surrogate, and
\* the code unit itself otherwise
JSONEscape(s, i) ==
    CASE s[i] = 8 -> <<92, 98>>
      [] s[i] = 9 -> <<92, 116>>
      [] s[i] = 10 -> <<92, 110>>
      [] s[i] = 12 -> <<92, 102>>
      [] s[i] = 13 -> <<92, 114>>
      [] s[i] = 34 -> <<92, 34>>
      [] s[i] = 92 -> <<92, 92>>
      [] s[i] < 32 \/ LoneSurrogate(s, i) -> UnicodeEscape(s[i])
      [] OTHER -> <<s[i]>>

\* a slip in the string literal (JSON.stringify before it was made well
\* formed): a lone surrogate is written as it is
JSONQuoteRaw(s) ==
    <<34>>
    \o Concat([i \in 1..Len(s) |->
                  IF LoneSurrogate(s, i) THEN <<s[i]>> ELSE JSONEscape(s, i)], Len(s))
    \o <<34>>

\* the string literal JSON.stringify writes for s
JSONQuote(s) ==
    IF \A i \in 1..Len(s) : JSONEscape(s, i) = <<s[i]>> THEN <<34>> \o s \o <<34>>
    ELSE <<34>> \o Concat([i \in 1..Len(s) |-> JSONEscape(s, i)], Len(s)) \o <<34>>

\* the string the characters of a literal from position i on stand for, as
\* JSON.parse reads them
RECURSIVE JSONUnescape(_, _)
JSONUnescape(s, i) ==
    IF i > Len(s) THEN <<>>
    ELSE IF s[i] # 92 THEN <<s[i]>> \o JSONUnescape(s, i + 1)
    ELSE IF s[i + 1] = 117
    THEN <<HexValue(SubSeq(s, i + 2, i + 5))>> \o JSONUnescape(s, i + 6)
    ELSE <<CASE s[i + 1] = 98 -> 8
             [] s[i + 1] = 116 -> 9
             [] s[i + 1] = 110 -> 10
             [] s[i + 1] = 102 -> 12
             [] s[i + 1] = 114 -> 13
             [] OTHER -> s[i + 1]>> \o JSONUnescape(s, i + 2)

\* the string JSON.parse reads from a string literal
JSONUnquote(text) ==
    IF \A i \in 2..(Len(text) - 1) : text[i] # 92 THEN SubSeq(text, 2, Len(text) - 1)
    ELSE JSONUnescape(SubSeq(text, 2, Len(text) - 1), 1)

\* the literal of an integer, and the number JSON.parse reads from it
JSONNumber(n) == IF n < 0 THEN <<45>> \o NatToStr(0 - n) ELSE NatToStr(n)

JSONReadNumber(text) ==
    IF text[1] = 45 THEN 0 - DigitsValue(Tail(text)) ELSE DigitsValue(text)

\* the fields of the records that hold strings; symbols holds an array of
\* strings, the others numbers.  timestamp, an ISO string of digits and
\* punctuation, is written as the digits of its tick
StringFields == {"sessionId", "userAgent", "screenSize", "referrer", "mode", "tier"}

\* what JSON.stringify writes for the field of a record, and what JSON.parse
\* reads from it
JSONField(field, v) ==
    CASE field \in StringFields -> JSONQuote(v)
      [] field = "symbols" -> [i \in 1..Len(v) |-> JSONQuote(v[i])]
      [] OTHER -> JSONNumber(v)

JSONReadField(field, text) ==
    CASE field \in StringFields -> JSONUnquote(text)
      [] field = "symbols" -> [i \in 1..Len(text) |-> JSONUnquote(text[i])]
      [] OTHER -> JSONReadNumber(text)

\* JSON.stringify(data, null, 2): the document, the four arrays of objects
\* with every value as the literal written for it (the layout of brackets,
\* commas and indentation is not spelled out)
JSONstringify(data) ==
    [t |-> "json",
     doc |-> [k \in DOMAIN data |->
                 [i \in 1..Len(data[k]) |->
                     [field \in DOMAIN data[k][i] |->
                         JSONField(field, data[k][i][field])]]]]

\* JSON.parse(text) of such a document
JSONparse(text) ==
    [k \in DOMAIN text.doc |->
        [i \in 1..Len(text.doc[k]) |->
            [field \in DOMAIN text.doc[k][i] |->
                JSONReadField(field, text.doc[k][i][field])]]]

\* a text written to the file as UTF-8 and read back: a lone surrogate has no
\* UTF-8 form and comes back as U+FFFD
Utf8(text) ==
    [i \in 1..Len(text) |-> IF LoneSurrogate(text, i) THEN 65533 ELSE text[i]]

\* the document after fs.writeFileSync(DATA_FILE, text) and
\* fs.readFileSync(DATA_FILE, 'utf8')
Utf8File(text) ==
    [t |-> "json",
     doc |-> [k \in DOMAIN text.doc |->
                 [i \in 1..Len(text.doc[k]) |->
                     [field \in DOMAIN text.doc[k][i] |->
                         IF field \in StringFields THEN Utf8(text.doc[k][i][field])
                         ELSE IF field = "symbols"
                         THEN [j \in 1..Len(text.doc[k][i][field]) |->
                                  Utf8(text.doc[k][i][field][j])]
                         ELSE text.doc[k][i][field]]]]]

\* DATA_FILE as an earlier run of the server may have left it: one record
\* of each kind, from the requests of RetentionBodies, stamped before the start
SeedFile ==
    JSONstringify(
        [visits |-> <<[timestamp |-> -4, sessionId |-> <<115, 49>>,
                       userAgent |-> <<>>, screenSize |-> <<>>, referrer |-> <<>>]>>,
         spins |-> <<[timestamp |-> -3, sessionId |-> <<115, 49>>, bet |-> 10,
                      win |-> 0, symbols |-> <<>>]>>,
         freeSpins |-> <<[timestamp |-> -2, sessionId |-> <<115, 49>>,
                          mode |-> <<>>, totalWin |-> 10, spinsCount |-> 0]>>,
         bigWins |-> <<[timestamp |-> -1, sessionId |-> <<115, 49>>,
                        tier |-> <<98, 105, 103>>, amount |-> 10]>>])

\* a slip in readData: the catch falls back on an older copy of the file
readDataBackup(f) == IF f.t = "json" THEN JSONparse(f) ELSE JSONparse(SeedFile)

\* readData(): the parsed file, or four empty sequences when reading or
\* parsing throws
readData(f) == IF f.t = "json" THEN JSONparse(f) ELSE EmptyStore

\* how fs.writeFileSync ends: written, failed before the file was opened (the
\* file is as before), or failed after it was truncated
WriteOutcomes == {"ok", "failed", "torn"}

\* writeData(data): the file afterwards
writeData(f, data, outcome) ==
    CASE outcome = "ok" -> Utf8File(JSONstringify(data))
      [] outcome = "torn" -> TornFile
      [] OTHER -> f

\* a slip in the cap: the slice is taken and not assigned
KeepLastUnassigned(seq, cap) == seq

\* a slip in the cap: the first cap entries are kept
KeepFirst(seq, cap) == IF Len(seq) > cap THEN Slice(seq, 0, cap) ELSE seq

\* a slip in the cap: if (seq.length >= cap) seq = seq.slice(-(cap - 1)), a
\* record is dropped before the cap is exceeded
KeepLastEager(seq, cap) ==
    IF Len(seq) >= cap THEN Slice(seq, 0 - (cap - 1), Len(seq)) ELSE seq

\* if (seq.length > cap) seq = seq.slice(-cap)
KeepLast(seq, cap) == IF Len(seq) > cap THEN Slice(seq, 0 - cap, Len(seq)) ELSE seq

(***************************************************************************)
(* POST /track                                                             *)
(***************************************************************************)
S_big == <<98, 105, 103>>

S_mega == <<109, 101, 103, 97>>

S_epic == <<101, 112, 105, 99>>

validTiers == {Str(S_big), Str(S_mega), Str(S_epic)}

\* res.status(status).json({ error: message }), nothing written
Rejected(status, message) ==
    [status |-> status, message |-> message, write |-> FALSE]

\* the catch of the handler
ServerError == Rejected(500, "Server error")

\* the handler reaches writeData(analytics) and res.json({ success: true })
Accepted(kind, record, analytics) ==
    [status |-> 200, message |-> "success", write |-> TRUE,
     kind |-> kind, record |-> record, analytics |-> analytics]

\* case 'visit'
TrackVisit(data, analytics, timestamp) ==
    IF ~Truthy(Get(data, "sessionId")) THEN Rejected(400, "Missing sessionId")
    ELSE LET record ==
                 [timestamp |-> timestamp,
                  sessionId |-> sanitize(Get(data, "sessionId"), SessionIdMax),
                  userAgent |-> sanitize(Get(data, "userAgent"), UserAgentMax),
                  screenSize |-> sanitize(Get(data, "screenSize"), ScreenSizeMax),
                  referrer |-> sanitize(Get(data, "referrer"), ReferrerMax)]
         IN Accepted("visit", record,
                [analytics EXCEPT
                    !.visits = KeepLast(Append(@, record), VisitsCap)])

\* data.symbols.slice(0, 18).map(s => sanitize(String(s), 20)), or []
SymbolsOf(symbols) ==
    IF symbols.t # "array" THEN <<>>
    ELSE LET kept == Slice(symbols.a, 0, SymbolsMax)
         IN [i \in 1..Len(kept) |-> sanitize(Str(StringOf(kept[i])), SymbolMax)]

\* case 'spin'
TrackSpin(data, analytics, timestamp) ==
    LET bet == validateNumber(Get(data, "bet"), 0, BetMax)
        win == validateNumber(Get(data, "win"), 0, WinMax)
    IN IF bet = Null \/ win = Null THEN Rejected(400, "Invalid bet or win")
       ELSE LET record ==
                    [timestamp |-> timestamp,
                     sessionId |-> sanitize(Get(data, "sessionId"), SessionIdMax),
                     bet |-> bet.n,
                     win |-> win.n,
                     symbols |-> SymbolsOf(Get(data, "symbols"))]
            IN Accepted("spin", record,
                   [analytics EXCEPT
                       !.spins = KeepLast(Append(@, record), SpinsCap)])

\* case 'freeSpins'
TrackFreeSpins(data, analytics, timestamp) ==
    LET fsWin == validateNumber(Get(data, "totalWin"), 0, WinMax)
        count == validateNumber(Get(data, "spinsCount"), 0, SpinsCountMax)
    IN IF fsWin = Null THEN Rejected(400, "Invalid totalWin")
       ELSE LET record ==
                    [timestamp |-> timestamp,
                     sessionId |-> sanitize(Get(data, "sessionId"), SessionIdMax),
                     mode |-> sanitize(Get(data, "mode"), ModeMax),
                     totalWin |-> fsWin.n,
                     spinsCount |-> IF Truthy(count) THEN count.n ELSE 0]
            IN Accepted("freeSpins", record,
                   [analytics EXCEPT
                       !.freeSpins = KeepLast(Append(@, record), FreeSpinsCap)])

\* a slip in case 'bigWin': a tier outside validTiers is rejected like an
\* invalid amount
TrackBigWinStrict(data, analytics, timestamp) ==
    LET bigWinAmount == validateNumber(Get(data, "amount"), 0, WinMax)
    IN IF bigWinAmount = Null THEN Rejected(400, "Invalid amount")
       ELSE IF Get(data, "tier") \notin validTiers THEN Rejected(400, "Invalid tier")
       ELSE LET record ==
                    [timestamp |-> timestamp,
                     sessionId |-> sanitize(Get(data, "sessionId"), SessionIdMax),
                     tier |-> Get(data, "tier").s,
                     amount |-> bigWinAmount.n]
            IN Accepted("bigWin", record,
                   [analytics EXCEPT
                       !.bigWins = KeepLast(Append(@, record), BigWinsCap)])

\* case 'bigWin'
TrackBigWin(data, analytics, timestamp) ==
    LET bigWinAmount == validateNumber(Get(data, "amount"), 0, WinMax)
        tier == IF Get(data, "tier") \in validTiers THEN Get(data, "tier").s
                ELSE S_big
    IN IF bigWinAmount = Null THEN Rejected(400, "Invalid amount")
       ELSE LET record ==
                    [timestamp |-> timestamp,
                     sessionId |-> sanitize(Get(data, "sessionId"), SessionIdMax),
                     tier |-> tier,
                     amount |-> bigWinAmount.n]
            IN Accepted("bigWin", record,
                   [analytics EXCEPT
                       !.bigWins = KeepLast(Append(@, record), BigWinsCap)])

\* the body of app.post('/track'): the response, and what is handed to
\* writeData.  f is the file readData reads, timestamp the clock
TrackOutcome(body, f, timestamp) ==
    IF body.t \in {"undefined", "null"} THEN ServerError
    ELSE
    LET eventType == Get(body, "eventType")
        data == Get(body, "data")
    IN
    IF ~Truthy(body) \/ TypeOf(body) # "object"
    THEN Rejected(400, "Invalid request")
    ELSE IF validateKeys(body, KeyArray({"eventType", "data"})) # "true"
    THEN Rejected(400, "Invalid request")
    ELSE IF ~Truthy(eventType) \/ TypeOf(eventType) # "string"
    THEN Rejected(400, "Invalid event type")
    ELSE IF ~Truthy(data) \/ TypeOf(data) # "object"
    THEN Rejected(400, "Invalid data")
    ELSE IF ~Truthy(SchemaOf(eventType))
    THEN Rejected(400, "Unknown event type")
    ELSE IF validateKeys(data, SchemaOf(eventType)) = "TypeError"
    THEN ServerError
    ELSE IF validateKeys(data, SchemaOf(eventType)) = "false"
    THEN Rejected(400, "Invalid data fields")
    ELSE
    LET analytics == readData(f)
    IN CASE KindOf(eventType.s) = "visit" -> TrackVisit(data, analytics, timestamp)
         [] KindOf(eventType.s) = "spin" -> TrackSpin(data, analytics, timestamp)
         [] KindOf(eventType.s) = "freeSpins" ->
                TrackFreeSpins(data, analytics, timestamp)
         [] KindOf(eventType.s) = "bigWin" -> TrackBigWin(data, analytics, timestamp)
         [] OTHER -> Accepted("none", [timestamp |-> timestamp], analytics)

\* no request handled yet, no call of sanitize made yet
NoRequest == [t |-> "none"]

NoResponse == [status |-> 0, message |-> "none"]

NoCall == [t |-> "none"]

\* a slip at the end of the handler: the result of writeData decides the
\* response
RespondChecked(o, outcome) ==
    IF o.write /\ outcome # "ok" THEN [status |-> 500, message |-> "Server error"]
    ELSE [status |-> o.status, message |-> o.message]

\* the response sent: writeData's result is dropped, so how the write ended
\* has no part in it
Respond(o, outcome) == [status |-> o.status, message |-> o.message]

\* no query handled yet, or a POST handled since the last one
NoQuery == [route |-> "none"]

NoAnswer == [status |-> 0]

\* the handler of POST /track run on a body, from req.body to the response.
\* It runs to its end without yielding (readFileSync and writeFileSync are
\* synchronous), so it is one step.  seen is the file readData reads; the
\* write ends in one of outcomes.  The clock moves on by one tick with every
\* request, so timestamps are distinct
Handle(body, seen, outcomes) ==
    \E o \in {TrackOutcome(body, seen, now)} :
       /\ req' = body
       /\ now' = now + 1
       /\ IF o.write
          THEN \E outcome \in outcomes :
                  /\ file' = writeData(file, o.analytics, outcome)
                  /\ resp' = Respond(o, outcome)
                  /\ log' = Append(log, [kind |-> o.kind, record |-> o.record,
                                         write |-> outcome,
                                         analytics |-> o.analytics])
          ELSE /\ resp' = Respond(o, "none")
               /\ UNCHANGED <<file, log>>
       /\ query' = NoQuery
       /\ answer' = NoAnswer
       /\ UNCHANGED <<sanIn, sanMax, sanOut>>

\* one request to POST /track, handled as it arrives; its write ends in any
\* of its outcomes
Track(body) ==
    /\ Handle(body, file, WriteOutcomes)
    /\ UNCHANGED received

\* a request to POST /track arrives: its body is parsed and it waits for its
\* turn on the event loop.  seen is the file as it is on arrival
Arrive(body) ==
    /\ received' = Append(received, [body |-> body, seen |-> file, done |-> FALSE])
    /\ UNCHANGED <<file, now, req, resp, log, query, answer, sanIn, sanMax, sanOut>>

\* a slip: the store is loaded when the request arrives, and the handler
\* runs on it after a yield
ServeStale(i) ==
    /\ ~received[i].done
    /\ Handle(received[i].body, received[i].seen, WriteOutcomes)
    /\ received' = [received EXCEPT ![i].done = TRUE]

\* the event loop takes one of the requests in flight, in any order, and runs
\* the handler on it: readData() is called in the handler, so on the file as
\* it is now
Serve(i) ==
    /\ ~received[i].done
    /\ Handle(received[i].body, file, WriteOutcomes)
    /\ received' = [received EXCEPT ![i].done = TRUE]

\* the call sanitize(sanIn, sanMax)
CallSanitize ==
    /\ sanIn # NoCall
    /\ sanOut = NoCall
    /\ sanOut' = Str(sanitize(sanIn, sanMax))
    /\ UNCHANGED <<file, now, req, resp, log, query, answer, received, sanIn, sanMax>>

(***************************************************************************)
(* Numbers and objects of the query handlers                               *)
(***************************************************************************)
\* (p / q).toFixed(2) for integers p and q > 0: the sign, then the hundredths
\* nearest to the magnitude, the larger when two are as near, as digits with
\* a point before the last two.  The quotient is taken exactly
ToFixed2(p, q) ==
    LET a == IF p < 0 THEN 0 - p ELSE p
        n == (200 * a + q) \div (2 * q)
    IN (IF p < 0 THEN <<45>> ELSE <<>>)
       \o NatToStr(n \div 100) \o <<46>>
       \o <<48 + ((n % 100) \div 10), 48 + (n % 10)>>

S_NaN == <<78, 97, 78>>

S_Infinity == <<73, 110, 102, 105, 110, 105, 116, 121>>

\* (p / q).toFixed(2): a division by zero gives NaN or an infinity, which
\* toFixed writes by name
FixedRatio(p, q) ==
    IF q # 0 THEN Str(ToFixed2(p, q))
    ELSE IF p = 0 THEN Str(S_NaN)
    ELSE Str((IF p < 0 THEN <<45>> ELSE <<>>) \o S_Infinity)

\* a slip in the guard: the quotient is taken whatever the divisor
Unguarded(q, v) == v

\* q > 0 ? v : 0
WhenPositive(q, v) == IF q > 0 THEN v ELSE Num(0)

\* the number a sign and the digits of a radix stand for, NaN without a digit
IntegerOf(sign, digits, radix) ==
    IF digits = <<>> THEN NaN
    ELSE Num(sign * (IF radix = 16 THEN HexValue(digits) ELSE DigitsValue(digits)))

\* parseInt of a string without leading white space: a sign, then the leading
\* digits, of radix 16 after 0x or 0X and of radix 10 otherwise
ParseIntTrimmed(t) ==
    \* u: what follows the sign
    Only({IF Len(u) >= 2 /\ u[1] = 48 /\ u[2] \in {88, 120}
          THEN IntegerOf(IF t # <<>> /\ t[1] = 45 THEN -1 ELSE 1,
                         SubSeq(u, 3, 2 + LeadLen(SubSeq(u, 3, Len(u)), HexDigits)), 16)
          ELSE IntegerOf(IF t # <<>> /\ t[1] = 45 THEN -1 ELSE 1,
                         SubSeq(u, 1, LeadLen(u, Digits)), 10) :
          u \in {IF t # <<>> /\ t[1] \in {43, 45} THEN Tail(t) ELSE t}})

\* parseInt(val): String(val) without its leading white space is parsed
parseInt(val) ==
    Only({ParseIntTrimmed(SubSeq(s, LeadLen(s, WhiteSpace) + 1, Len(s))) :
             s \in {StringOf(val)}})

\* a || b
OrElse(a, b) == IF Truthy(a) THEN a ELSE b

\* a + 1: the next number, or for what is no number the string with 1 after it
PlusOne(a) ==
    IF a.t = "number" THEN Num(a.n + 1) ELSE Str(StringOf(a) \o <<49>>)

\* Object.prototype, which {}.__proto__ reads
ObjectPrototype == [t |-> "object", f |-> [k \in {"constructor"} |-> Function]]

\* what obj[key] finds on the prototype chain of an object literal
Inherited(key) ==
    IF key = S_proto THEN ObjectPrototype
    ELSE IF key = S_constructor THEN Function
    ELSE IF key \in ObjectPrototypeNames THEN NativeFunction(key)
    ELSE Undefined

\* An object literal filled in by assignments is the sequence of its own
\* properties, [key, value], in the order they were created.
\* obj[key]: the own property, else the inherited one, else undefined
GetProp(props, key) ==
    IF \E i \in 1..Len(props) : props[i].key = key
    THEN props[CHOOSE i \in 1..Len(props) : props[i].key = key].value
    ELSE Inherited(key)

\* obj[key] = value: an own property is overwritten in place, a new one comes
\* last; __proto__ is the setter of Object.prototype, which ignores what is
\* neither an object nor null and otherwise changes the prototype, not a property
SetProp(props, key, value) ==
    IF key = S_proto THEN props
    ELSE IF \E i \in 1..Len(props) : props[i].key = key
    THEN [i \in 1..Len(props) |->
             IF props[i].key = key THEN [key |-> key, value |-> value]
             ELSE props[i]]
    ELSE Append(props, [key |-> key, value |-> value])

\* the largest array index, 2^32 - 2, in digits
MaxArrayIndex == <<52, 50, 57, 52, 57, 54, 55, 50, 57, 52>>

\* a before b, for strings of digits without leading zeros
IndexLess(a, b) ==
    \/ Len(a) < Len(b)
    \/ /\ Len(a) = Len(b)
       /\ \E i \in 1..Len(a) :
             a[i] < b[i] /\ \A j \in 1..(i - 1) : a[j] = b[j]

\* a key that is an array index: canonical digits of a number up to 2^32 - 2
IsArrayIndex(key) ==
    /\ key # <<>>
    /\ \A i \in 1..Len(key) : key[i] \in Digits
    /\ key = <<48>> \/ key[1] # 48
    /\ key = MaxArrayIndex \/ IndexLess(key, MaxArrayIndex)

\* the own properties in the order Object.entries, Object.values and
\* Object.keys list them: the array indices in ascending order, then the other
\* keys in the order they were created
OwnEntries(props) ==
    LET idx == {i \in 1..Len(props) : IsArrayIndex(props[i].key)}
        rank(i) == 1 + Cardinality({j \in idx : IndexLess(props[j].key, props[i].key)})
        indices == [r \in 1..Cardinality(idx) |->
                       props[CHOOSE i \in idx : rank(i) = r]]
    IN indices \o SelectSeq(props, LAMBDA e : ~IsArrayIndex(e.key))

\* seq.reverse()
Reverse(seq) == [i \in 1..Len(seq) |-> seq[Len(seq) + 1 - i]]

\* Array.prototype.sort(comparefn) as V8 runs it on an array shorter than 64
\* (one run of its TimSort): the run the array starts with is found, reversed
\* when it strictly descends, and every later element is put in by binary
\* insertion.  c[x, y] is comparefn(x, y), a NaN taken as 0.  It is a stable
\* sort when comparefn is consistent
RECURSIVE RunEnd(_, _, _, _)
RunEnd(a, c, descending, idx) ==
    IF idx > Len(a) THEN Len(a)
    ELSE LET order == c[a[idx], a[idx - 1]]
         IN IF (descending /\ order >= 0) \/ (~descending /\ order < 0)
            THEN idx - 1
            ELSE RunEnd(a, c, descending, idx + 1)

CountAndMakeRun(a, c) ==
    IF Len(a) < 2 THEN [len |-> Len(a), a |-> a]
    ELSE LET descending == c[a[2], a[1]] < 0
             len == RunEnd(a, c, descending, 3)
         IN [len |-> len,
             a |-> IF descending
                   THEN Reverse(SubSeq(a, 1, len)) \o SubSeq(a, len + 1, Len(a))
                   ELSE a]

\* where pivot goes among the first right elements of a, counted from 0
RECURSIVE InsertionPoint(_, _, _, _, _)
InsertionPoint(a, c, pivot, left, right) ==
    IF left >= right THEN left
    ELSE LET mid == left + ((right - left) \div 2)
         IN IF c[pivot, a[mid + 1]] < 0
            THEN InsertionPoint(a, c, pivot, left, mid)
            ELSE InsertionPoint(a, c, pivot, mid + 1, right)

\* a, its first start elements sorted, with the next one put in its place
InsertNext(a, c, start) ==
    LET at == InsertionPoint(a, c, a[start + 1], 0, start)
    IN SubSeq(a, 1, at) \o <<a[start + 1]>> \o SubSeq(a, at + 1, start)
       \o SubSeq(a, start + 2, Len(a))

\* the first start elements of a are sorted; the others are put in one by one
RECURSIVE BinaryInsertionSort(_, _, _)
BinaryInsertionSort(a, c, start) ==
    IF start >= Len(a) THEN a
    ELSE Only({BinaryInsertionSort(next, c, start + 1) :
                  next \in {InsertNext(a, c, start)}})

ArraySort(a, c) ==
    Only({BinaryInsertionSort(run.a, cmp, run.len) :
             run \in {CountAndMakeRun(a, c)}, cmp \in {c}})

(***************************************************************************)
(* GET /stats                                                              *)
(***************************************************************************)
\* a slip in the reduce, (sum, s) => s[field]: the sum is dropped
TotalOfLast(records, field) ==
    IF records = <<>> THEN 0 ELSE records[Len(records)][field]

\* spins.reduce((sum, s) => sum + s[field], 0)
RECURSIVE TotalOf(_, _)
TotalOf(records, field) ==
    IF records = <<>> THEN 0
    ELSE TotalOf(SubSeq(records, 1, Len(records) - 1), field)
         + records[Len(records)][field]

\* the symbols in the order the two forEach visit them: spin after spin, each
\* from left to right
RECURSIVE ScanSymbols(_)
ScanSymbols(spins) ==
    IF spins = <<>> THEN <<>>
    ELSE ScanSymbols(SubSeq(spins, 1, Len(spins) - 1)) \o spins[Len(spins)].symbols

\* symbolCounts[sym] = (symbolCounts[sym] || 0) + 1
CountSymbol(symbolCounts, sym) ==
    SetProp(symbolCounts, sym, PlusOne(OrElse(GetProp(symbolCounts, sym), Num(0))))

\* symbolCounts after the first n symbols of the scan
RECURSIVE SymbolCountsAfter(_, _)
SymbolCountsAfter(scan, n) ==
    IF n = 0 THEN <<>>
    ELSE Only({CountSymbol(symbolCounts, scan[n]) :
                  symbolCounts \in {SymbolCountsAfter(scan, n - 1)}})

\* symbolCounts after the two forEach
SymbolCounts(spins) ==
    Only({SymbolCountsAfter(scan, Len(scan)) : scan \in {ScanSymbols(spins)}})

\* (a, b) => b[1] - a[1]: a difference of numbers, NaN (taken as 0) as soon as
\* one of the two is a string that is no number
ByCount(entries) ==
    [a \in Range(entries), b \in Range(entries) |->
        IF a.value.t = "number" /\ b.value.t = "number" THEN b.value.n - a.value.n
        ELSE 0]

\* entries listed by /stats
TopCount == 10

\* Object.entries(symbolCounts).sort((a, b) => b[1] - a[1]).slice(0, 10)
TopSymbols(symbolCounts) ==
    Only({Slice(ArraySort(entries, ByCount(entries)), 0, TopCount) :
             entries \in {OwnEntries(symbolCounts)}})

\* bigWinCounts after the forEach: a tier is counted when bigWinCounts[tier]
\* is not undefined, which it is not for big, mega and epic
BigWinCounts(bigWins) ==
    [tier \in {"big", "mega", "epic"} |->
        Cardinality({i \in 1..Len(bigWins) :
            bigWins[i].tier = (CASE tier = "big" -> S_big
                                 [] tier = "mega" -> S_mega
                                 [] OTHER -> S_epic)})]

\* the body of app.get('/stats'): the document sent.  spinsByHour and
\* lastUpdated, which read the time of day, are left out
StatsQuery(analytics) ==
    LET totalSpins == Len(analytics.spins)
        totalWagered == TotalOf(analytics.spins, "bet")
        totalWon == TotalOf(analytics.spins, "win")
    IN [status |-> 200,
        totalVisits |-> Len(analytics.visits),
        uniqueSessions |->
            Cardinality({analytics.visits[i].sessionId : i \in 1..Len(analytics.visits)}),
        totalSpins |-> totalSpins,
        totalWagered |-> Str(ToFixed2(totalWagered, 1)),
        totalWon |-> Str(ToFixed2(totalWon, 1)),
        houseEdge |-> WhenPositive(totalWagered,
                          FixedRatio((totalWagered - totalWon) * 100, totalWagered)),
        avgBet |-> WhenPositive(totalSpins, FixedRatio(totalWagered, totalSpins)),
        topSymbols |-> TopSymbols(SymbolCounts(analytics.spins)),
        bigWinCounts |-> BigWinCounts(analytics.bigWins),
        fsTriggerRate |-> WhenPositive(totalSpins,
                              FixedRatio(Len(analytics.freeSpins) * 100, totalSpins))]

(***************************************************************************)
(* GET /sessions, /spins, /bigwins, /health                                *)
(***************************************************************************)
\* the limit when none is given, and the largest
DefaultLimit == 50

LimitMax == 200

\* Math.min(Math.max(1, parseInt(req.query.limit) || 50), 200)
EffectiveLimit(limit) ==
    Min(Max(1, OrElse(parseInt(limit), Num(DefaultLimit)).n), LimitMax)

\* Math.max(1, parseInt(req.query.page) || 1)
EffectivePage(page) == Max(1, OrElse(parseInt(page), Num(1)).n)

\* a slip in the first forEach: a later visit of the session replaces the entry
AddVisitLatest(sessionMap, v) ==
    IF Inherited(v.sessionId) # Undefined THEN sessionMap
    ELSE SetProp(sessionMap, v.sessionId,
                 [sessionId |-> v.sessionId, startTime |-> v.timestamp,
                  userAgent |-> v.userAgent, screenSize |-> v.screenSize,
                  spins |-> 0, wagered |-> 0, won |-> 0])

\* if (!sessionMap[v.sessionId]) sessionMap[v.sessionId] = { ... }: an entry
\* of its own is an object and what is inherited is a function or an object,
\* all truthy
AddVisit(sessionMap, v) ==
    IF GetProp(sessionMap, v.sessionId) # Undefined THEN sessionMap
    ELSE SetProp(sessionMap, v.sessionId,
                 [sessionId |-> v.sessionId, startTime |-> v.timestamp,
                  userAgent |-> v.userAgent, screenSize |-> v.screenSize,
                  spins |-> 0, wagered |-> 0, won |-> 0])

\* if (sessionMap[s.sessionId]) { spins++; wagered += s.bet; won += s.win }.
\* When what is found is inherited (Object, Object.prototype) the three
\* properties are set on that object, and no entry of the map changes
AddSpin(sessionMap, s) ==
    IF \E i \in 1..Len(sessionMap) : sessionMap[i].key = s.sessionId
    THEN LET e == GetProp(sessionMap, s.sessionId)
         IN SetProp(sessionMap, s.sessionId,
                    [e EXCEPT !.spins = @ + 1, !.wagered = @ + s.bet,
                              !.won = @ + s.win])
    ELSE sessionMap

\* sessionMap after the first n visits
RECURSIVE SessionsOfVisits(_, _)
SessionsOfVisits(visits, n) ==
    IF n = 0 THEN <<>>
    ELSE Only({AddVisit(sessionMap, visits[n]) :
                  sessionMap \in {SessionsOfVisits(visits, n - 1)}})

\* sessionMap after the first n spins
RECURSIVE SessionsWithSpins(_, _, _)
SessionsWithSpins(sessionMap, spins, n) ==
    IF n = 0 THEN sessionMap
    ELSE Only({AddSpin(m, spins[n]) :
                  m \in {SessionsWithSpins(sessionMap, spins, n - 1)}})

\* sessionMap after the two forEach
SessionMap(analytics) ==
    Only({SessionsWithSpins(m, analytics.spins, Len(analytics.spins)) :
             m \in {SessionsOfVisits(analytics.visits, Len(analytics.visits))}})

\* (a, b) => new Date(b.startTime) - new Date(a.startTime)
ByStartTime(entries) ==
    [a \in Range(entries), b \in Range(entries) |->
        b.value.startTime - a.value.startTime]

\* s.includes(sub)
Includes(s, sub) ==
    \E i \in 0..(Len(s) - Len(sub)) : SubSeq(s, i + 1, i + Len(sub)) = sub

S_Mobile == <<77, 111, 98, 105, 108, 101>>

S_Desktop == <<68, 101, 115, 107, 116, 111, 112>>

\* .map(s => ({ ...s, netResult, device }))
Rollup(r) ==
    [sessionId |-> r.sessionId, startTime |-> r.startTime,
     userAgent |-> r.userAgent, screenSize |-> r.screenSize,
     spins |-> r.spins, wagered |-> r.wagered, won |-> r.won,
     netResult |-> ToFixed2(r.won - r.wagered, 1),
     device |-> IF r.userAgent # <<>> /\ Includes(r.userAgent, S_Mobile)
                THEN S_Mobile ELSE S_Desktop]

\* the body of app.get('/sessions'): the rollups sent, and the limit used
SessionsQuery(analytics, limit) ==
    Only({[status |-> 200,
           limit |-> l,
           sessions |-> [i \in 1..Min(l, Len(sorted)) |-> Rollup(sorted[i].value)]] :
          l \in {EffectiveLimit(limit)},
          sorted \in {Only({ArraySort(values, ByStartTime(values)) :
                               values \in {OwnEntries(SessionMap(analytics))}})}})

\* recentSpins and the pagination sent with it; Math.ceil(total / limit) is
\* the quotient rounded up
SpinsPage(spins, page, limit, offset) ==
    [status |-> 200,
     spins |-> Slice(Reverse(spins), offset, offset + limit),
     page |-> page,
     limit |-> limit,
     total |-> Len(spins),
     totalPages |-> (Len(spins) + limit - 1) \div limit]

\* a slip in the offset: pages are counted from 0
SpinsQueryFromZero(analytics, page, limit) ==
    Only({SpinsPage(analytics.spins, p, l, p * l) :
             p \in {EffectivePage(page)}, l \in {EffectiveLimit(limit)}})

\* the body of app.get('/spins')
SpinsQuery(analytics, page, limit) ==
    Only({SpinsPage(analytics.spins, p, l, (p - 1) * l) :
             p \in {EffectivePage(page)}, l \in {EffectiveLimit(limit)}})

\* the body of app.get('/bigwins'), and the limit used
BigWinsQuery(analytics, limit) ==
    Only({[status |-> 200,
           limit |-> l,
           bigWins |-> Slice(Reverse(analytics.bigWins), 0, l)] :
          l \in {EffectiveLimit(limit)}})

\* the body of app.get('/health')
HealthQuery == [status |-> 200, health |-> "ok"]

\* the response to GET route with req.query q, computed from the store loaded
QueryAnswer(route, q, analytics) ==
    CASE route = "stats" -> StatsQuery(analytics)
      [] route = "sessions" -> SessionsQuery(analytics, q.limit)
      [] route = "spins" -> SpinsQuery(analytics, q.page, q.limit)
      [] route = "bigwins" -> BigWinsQuery(analytics, q.limit)
      [] OTHER -> HealthQuery

\* a slip in the load of a query: the store read is written back, so that a
\* file that did not load is replaced by the empty defaults
QueryRepairing(route, q) ==
    /\ query' = [route |-> route, q |-> q]
    /\ \E analytics \in {readData(file)} :
          /\ answer' = QueryAnswer(route, q, analytics)
          /\ file' = writeData(file, analytics, "ok")
    /\ UNCHANGED <<now, req, resp, log, received, sanIn, sanMax, sanOut>>

\* one GET request, from req.query to the response: const analytics =
\* readData(), then the document computed from it.  Nothing but the response
\* comes of it
Query(route, q) ==
    /\ query' = [route |-> route, q |-> q]
    /\ \E analytics \in {readData(file)} :
          answer' = QueryAnswer(route, q, analytics)
    /\ UNCHANGED <<file, now, req, resp, log, received, sanIn, sanMax, sanOut>>

(***************************************************************************)
(* Requests                                                                *)
(***************************************************************************)
\* the string of n code units c
Repeat(c, n) == [i \in 1..n |-> c]

\* { eventType, data }
Body(eventType, data) == Obj([eventType |-> eventType, data |-> data])

\* "s1", "s2", "a<script>", "<>", "7", "<b>", "cherry", "Mozilla Mobile",
\* "1920x1080", "abc", "12abc", "-5", "  7", "Infinity", "foo", "Visit", "huge"
T_s1 == Str(<<115, 49>>)

T_s2 == Str(<<115, 50>>)

T_script == Str(<<97, 60, 115, 99, 114, 105, 112, 116, 62>>)

T_angles == Str(<<60, 62>>)

T_seven == Str(<<55>>)

T_bold == Str(<<60, 98, 62>>)

T_cherry == Str(<<99, 104, 101, 114, 114, 121>>)

T_mobile == Str(<<77, 111, 122, 105, 108, 108, 97, 32, 77, 111, 98, 105, 108, 101>>)

T_screen == Str(<<49, 57, 50, 48, 120, 49, 48, 56, 48>>)

T_abc == Str(<<97, 98, 99>>)

T_12abc == Str(<<49, 50, 97, 98, 99>>)

T_minus5 == Str(<<45, 53>>)

T_sp7 == Str(<<32, 32, 55>>)

T_infinity == Str(<<73, 110, 102, 105, 110, 105, 116, 121>>)

T_foo == Str(<<102, 111, 111>>)

T_Visit == Str(<<86, 105, 115, 105, 116>>)

T_huge == Str(<<104, 117, 103, 101>>)

\* a string whose code units max and max + 1 are the two halves of an emoji:
\* the slice cuts the pair and leaves a lone surrogate at the end
CutPair(max) == Str(Repeat(97, max - 1) \o <<55357, 56832>>)

\* a string one code unit longer than max, its last two units a quote and a
\* letter: the slice cuts the letter, the replace the quote
Long(max) == Str(Repeat(97, max - 1) \o <<39, 98>>)

\* req.body that is no object, or an object without both keys, or with more
MalformedBodies ==
    {Undefined, Null, Str(<<>>), T_abc, Num(0), Num(5), Bool(TRUE),
     Arr(<<>>), Arr(<<Str(S_visit)>>), EmptyObject,
     Obj([eventType |-> Str(S_visit)]),
     Obj([data |-> Obj([sessionId |-> T_s1])]),
     Obj([eventType |-> Str(S_visit), data |-> Obj([sessionId |-> T_s1]),
          extra |-> Num(1)]),
     Obj([eventType |-> Str(S_spin), data |-> Obj([bet |-> Num(10), win |-> Num(0)]),
          timestamp |-> Num(1)]),
     Obj([eventType |-> Str(S_constructor), data |-> EmptyObject,
          extra |-> Num(1)]),
     Obj([extra |-> Num(1)])}

\* eventType values that name no event kind
BadEventTypes ==
    {Num(7), Null, Str(<<>>), Arr(<<Str(S_visit)>>),
     T_foo, T_Visit, Str(S_constructor), Str(S_toString), Str(S_proto)}

\* data values tried with them and with every kind
AnyData ==
    {EmptyObject, Null, T_abc, Arr(<<>>), Arr(<<Num(1)>>),
     Obj([sessionId |-> T_s1]), Obj([sessionId |-> T_s1, foo |-> Num(1)])}

UnknownKindBodies == {Body(e, d) : e \in BadEventTypes, d \in AnyData}

VisitData ==
    {Obj([sessionId |-> T_script]),
     Obj([sessionId |-> T_angles]),
     Obj([sessionId |-> Num(42)]),
     Obj([sessionId |-> Str(<<>>)]),
     Obj([sessionId |-> Long(SessionIdMax)]),
     Obj([sessionId |-> CutPair(SessionIdMax)]),
     Obj([sessionId |-> T_s1, userAgent |-> T_mobile, screenSize |-> T_screen,
          referrer |-> T_bold]),
     Obj([sessionId |-> T_s2, userAgent |-> Long(UserAgentMax),
          screenSize |-> Long(ScreenSizeMax), referrer |-> Long(ReferrerMax)]),
     Obj([userAgent |-> T_mobile]),
     Obj([sessionId |-> T_s1, bet |-> Num(10)])}

\* values of a numeric field: in range, at and beyond the ends of [0, max],
\* and what does not parse to a finite number
Numbers(max) ==
    {Num(0), Num(10), Num(max), Num(max + 1), Num(-1), Str(NatToStr(max)),
     T_12abc, T_sp7, T_minus5, T_abc, T_infinity, Str(<<>>), Infinity, NaN,
     Null, Bool(TRUE), Arr(<<Num(7)>>), EmptyObject}

SpinData ==
    {Obj([sessionId |-> T_s1, bet |-> b, win |-> Num(0)]) : b \in Numbers(BetMax)}
    \cup {Obj([sessionId |-> T_s1, bet |-> Num(10), win |-> w]) : w \in Numbers(WinMax)}
    \cup {Obj([bet |-> Num(10)]), Obj([win |-> Num(10)]),
          Obj([sessionId |-> Long(SessionIdMax), bet |-> Num(10), win |-> Num(100),
               symbols |-> Arr(<<T_seven, T_bold, Num(7), Null, Long(SymbolMax)>>)]),
          Obj([bet |-> Num(10), win |-> Num(100),
               symbols |-> Arr(Repeat(T_cherry, SymbolsMax + 1))]),
          Obj([bet |-> Num(10), win |-> Num(100), symbols |-> T_cherry]),
          Obj([bet |-> Num(10), win |-> Num(0), amount |-> Num(1)])}

FreeSpinsData ==
    {Obj([sessionId |-> T_s1, totalWin |-> w]) : w \in Numbers(WinMax)}
    \cup {Obj([totalWin |-> Num(10), spinsCount |-> c, mode |-> T_bold]) :
             c \in Numbers(SpinsCountMax)}
    \cup {Obj([totalWin |-> Num(10), mode |-> Long(ModeMax)]),
          Obj([spinsCount |-> Num(5)]),
          Obj([totalWin |-> Num(10), tier |-> Str(S_big)])}

BigWinData ==
    {Obj([sessionId |-> T_s1, amount |-> a]) : a \in Numbers(WinMax)}
    \cup {Obj([amount |-> Num(10), tier |-> t]) :
             t \in validTiers \cup {T_huge, Num(1), Null, Str(<<>>)}}
    \cup {Obj([tier |-> Str(S_mega)]),
          Obj([amount |-> Num(10), mode |-> T_bold])}

KnownKindBodies ==
    {Body(Str(S_visit), d) : d \in VisitData \cup AnyData}
    \cup {Body(Str(S_spin), d) : d \in SpinData \cup AnyData}
    \cup {Body(Str(S_freeSpins), d) : d \in FreeSpinsData \cup AnyData}
    \cup {Body(Str(S_bigWin), d) : d \in BigWinData \cup AnyData}

\* the bodies POSTed to /track
Bodies == MalformedBodies \cup UnknownKindBodies \cup KnownKindBodies

\* a few requests of each kind, for runs long enough to fill the sequences
RetentionBodies ==
    {Body(Str(S_visit), Obj([sessionId |-> T_s1])),
     Body(Str(S_spin), Obj([sessionId |-> T_s1, bet |-> Num(10), win |-> Num(0)])),
     Body(Str(S_freeSpins), Obj([sessionId |-> T_s1, totalWin |-> Num(10)])),
     Body(Str(S_bigWin), Obj([sessionId |-> T_s1, amount |-> Num(10)])),
     Body(Str(S_spin), Obj([bet |-> T_abc])),
     Body(T_foo, EmptyObject)}

\* one request for each answer 400 of the handler, in the order of its checks:
\* Invalid request, Invalid event type, Invalid data, Unknown event type,
\* Invalid data fields, Missing sessionId, Invalid bet or win, Invalid
\* totalWin, Invalid amount
RejectedBodies ==
    {Obj([eventType |-> Str(S_visit), data |-> Obj([sessionId |-> T_s1]),
          extra |-> Num(1)]),
     Body(Num(7), Obj([sessionId |-> T_s1])),
     Body(Str(S_visit), Null),
     Body(T_Visit, Obj([sessionId |-> T_s1])),
     Body(Str(S_spin), Obj([bet |-> Num(10), win |-> Num(0), amount |-> Num(1)])),
     Body(Str(S_visit), Obj([userAgent |-> T_mobile])),
     Body(Str(S_spin), Obj([sessionId |-> T_s1, bet |-> Num(BetMax + 1),
                            win |-> Num(0)])),
     Body(Str(S_freeSpins), Obj([sessionId |-> T_s1, totalWin |-> T_abc])),
     Body(Str(S_bigWin), Obj([sessionId |-> T_s1, amount |-> Num(-1)]))}

\* visits of sessions whose sessionId the sanitizer leaves as it is ("s1",
\* "constructor", "toString", "__proto__") or empties ("<>"), and a spin of
\* one of them
SessionBodies ==
    {Body(Str(S_visit), Obj([sessionId |-> T_s1, userAgent |-> T_mobile])),
     Body(Str(S_visit), Obj([sessionId |-> T_angles])),
     Body(Str(S_visit), Obj([sessionId |-> Str(S_constructor)])),
     Body(Str(S_visit), Obj([sessionId |-> Str(S_toString)])),
     Body(Str(S_visit), Obj([sessionId |-> Str(S_proto)])),
     Body(Str(S_spin), Obj([sessionId |-> Str(S_constructor), bet |-> Num(10),
                            win |-> Num(0)]))}

\* "a" .. "k": eleven symbols, one more than /stats lists
Letters == [i \in 1..11 |-> Str(<<96 + i>>)]

\* the requests the stores of the queries are built from: two visits, three
\* spins (one with a digit symbol, one with symbols named like members of
\* Object.prototype, one of bet 0 with eleven symbols), a free spins round
\* and a big win
QueryBodies ==
    {Body(Str(S_visit), Obj([sessionId |-> T_s1, userAgent |-> T_mobile])),
     Body(Str(S_visit), Obj([sessionId |-> T_s2, userAgent |-> T_abc])),
     Body(Str(S_spin), Obj([sessionId |-> T_s1, bet |-> Num(10), win |-> Num(0),
                            symbols |-> Arr(<<T_cherry, T_seven>>)])),
     Body(Str(S_spin), Obj([sessionId |-> T_s2, bet |-> Num(10), win |-> Num(100),
                            symbols |-> Arr(<<Str(S_constructor), Str(S_proto),
                                              T_cherry>>)])),
     Body(Str(S_spin), Obj([bet |-> Num(0), win |-> Num(0),
                            symbols |-> Arr(Letters)])),
     Body(Str(S_freeSpins), Obj([sessionId |-> T_s1, totalWin |-> Num(10)])),
     Body(Str(S_bigWin), Obj([sessionId |-> T_s1, tier |-> Str(S_mega),
                              amount |-> Num(500)]))}

\* req.query: limit and page as the query string gives them, undefined when
\* it has none.  "0", "1", "2", "4", "-5", "201"
T_0 == Str(<<48>>)

T_1 == Str(<<49>>)

T_2 == Str(<<50>>)

T_4 == Str(<<52>>)

T_201 == Str(<<50, 48, 49>>)

ReqQuery(limit, page) == [limit |-> limit, page |-> page]

QueryLimits == {Undefined, T_0, T_1, T_2, T_minus5, T_201, T_abc}

QueryPages == {Undefined, T_0, T_2, T_4, T_abc}

\* the GET requests
Queries ==
    {[route |-> r, q |-> ReqQuery(Undefined, Undefined)] : r \in {"stats", "health"}}
    \cup {[route |-> r, q |-> ReqQuery(l, Undefined)] :
              r \in {"sessions", "spins", "bigwins"}, l \in QueryLimits}
    \cup {[route |-> "spins", q |-> ReqQuery(l, p)] :
              l \in {T_1, T_2}, p \in QueryPages}

\* requests in flight together: of the same kind and of different kinds
ConcurrentBodies ==
    {Body(Str(S_spin), Obj([sessionId |-> T_s1, bet |-> Num(10), win |-> Num(0)])),
     Body(Str(S_spin), Obj([sessionId |-> T_s2, bet |-> Num(10), win |-> Num(100)])),
     Body(Str(S_bigWin), Obj([sessionId |-> T_s1, amount |-> Num(10)]))}

\* the queries made while they are in flight
ConcurrentQueries ==
    {[route |-> r, q |-> ReqQuery(Undefined, Undefined)] : r \in {"stats", "spins"}}

\* code units the arguments of sanitize are made of: a letter, the ends of
\* the printable range, one beyond ASCII, every unit of the first class, and
\* the ends of the second
SanAlphabet == {97, 32, 126, 128, 60, 62, 39, 34, 38, 92, 0, 31, 127}

\* longest argument, and largest maxLength, of the calls of sanitize
MaxSanLen == 3

MaxSanMax == 4

SanInputs ==
    {Str(s) : s \in UNION {[1..n -> SanAlphabet] : n \in 0..MaxSanLen}}
    \cup {Undefined, Null, Num(5), Bool(TRUE), Arr(<<>>), EmptyObject}

(***************************************************************************)
(* Specifications                                                          *)
(***************************************************************************)
\* requests in a run of Spec, and in a run of SpecRetention
MaxRequests == 1

MaxAppends == 4

\* requests to POST /track in a run of SpecQuery
MaxIngest == 3

\* requests to POST /track in a run of SpecConcurrent
MaxInFlight == 3

\* the file the process finds when it starts: none, one cut short, one it
\* cannot read, or one written by an earlier run
StartFiles == {NoFile, TornFile, UnreadableFile, SeedFile}

Init ==
    /\ file \in StartFiles
    /\ now = 0
    /\ req = NoRequest
    /\ resp = NoResponse
    /\ log = <<>>
    /\ query = NoQuery
    /\ answer = NoAnswer
    /\ received = <<>>
    /\ sanIn = NoCall
    /\ sanMax = 0
    /\ sanOut = NoCall

\* the start of a fresh installation: no DATA_FILE yet
InitFresh ==
    /\ file = NoFile
    /\ now = 0
    /\ req = NoRequest
    /\ resp = NoResponse
    /\ log = <<>>
    /\ query = NoQuery
    /\ answer = NoAnswer
    /\ received = <<>>
    /\ sanIn = NoCall
    /\ sanMax = 0
    /\ sanOut = NoCall

\* requests of every shape
Next ==
    /\ now < MaxRequests
    /\ \E body \in Bodies : Track(body)

Spec == Init /\ [][Next]_vars

\* runs of well-formed requests long enough to fill the sequences
NextRetention ==
    /\ now < MaxAppends
    /\ \E body \in RetentionBodies : Track(body)

SpecRetention == InitFresh /\ [][NextRetention]_vars

\* sanitize by itself, on an argument and a maxLength drawn at the start, or
\* sanitize as the handler calls it
InitSanitize ==
    /\ file = NoFile
    /\ now = 0
    /\ req = NoRequest
    /\ resp = NoResponse
    /\ log = <<>>
    /\ query = NoQuery
    /\ answer = NoAnswer
    /\ received = <<>>
    /\ \/ sanIn = NoCall /\ sanMax = 0
       \/ sanIn \in SanInputs /\ sanMax \in 0..MaxSanMax
    /\ sanOut = NoCall

NextSanitize ==
    \/ CallSanitize
    \/ sanIn = NoCall /\ Next

SpecSanitize == InitSanitize /\ [][NextSanitize]_vars

\* a request to POST /track whose write succeeds
TrackSaved(body) ==
    /\ Handle(body, file, {"ok"})
    /\ UNCHANGED received

\* stores built by ingestion, and the queries on them
NextQuery ==
    \/ /\ now < MaxIngest
       /\ \E body \in QueryBodies : TrackSaved(body)
    \/ \E g \in Queries : Query(g.route, g.q)

SpecQuery == InitFresh /\ [][NextQuery]_vars

\* a process that starts on any file, DATA_FILE failing to load among them:
\* ingestion with every outcome of the write, and the queries
NextLoad ==
    \/ /\ now < MaxRequests
       /\ \E body \in RetentionBodies : Track(body)
    \/ \E g \in Queries : Query(g.route, g.q)

SpecLoad == Init /\ [][NextLoad]_vars

\* a process that starts on any file: requests that are accepted, requests
\* that are rejected at each of the checks, and the queries
NextFrame ==
    \/ /\ now < MaxRequests
       /\ \E body \in RetentionBodies \cup RejectedBodies : Track(body)
    \/ \E g \in Queries : Query(g.route, g.q)

SpecFrame == Init /\ [][NextFrame]_vars

\* the two views of the sessions: GET /stats, and GET /sessions with no
\* limit, with limit 1 and with limit 2
SessionQueries ==
    {[route |-> "stats", q |-> ReqQuery(Undefined, Undefined)]}
    \cup {[route |-> "sessions", q |-> ReqQuery(l, Undefined)] :
             l \in {Undefined, T_1, T_2}}

\* stores of visits of every sort of sessionId, and the two views of them
NextSessions ==
    \/ /\ now < MaxIngest
       /\ \E body \in SessionBodies : TrackSaved(body)
    \/ \E g \in SessionQueries : Query(g.route, g.q)

SpecSessions == InitFresh /\ [][NextSessions]_vars

\* requests arrive while others wait to be handled; the event loop runs the
\* handlers one at a time in any order, and queries come in between
NextConcurrent ==
    \/ /\ Len(received) < MaxInFlight
       /\ \E body \in ConcurrentBodies : Arrive(body)
    \/ \E i \in 1..Len(received) : Serve(i)
    \/ \E g \in ConcurrentQueries : Query(g.route, g.q)

SpecConcurrent == InitFresh /\ [][NextConcurrent]_vars

(***************************************************************************)
(* Properties                                                              *)
(***************************************************************************)
Kinds == {"visits", "spins", "freeSpins", "bigWins"}

\* the cap of each sequence, and the sequence each event kind is kept in
Cap(k) ==
    CASE k = "visits" -> VisitsCap
      [] k = "spins" -> SpinsCap
      [] k = "freeSpins" -> FreeSpinsCap
      [] k = "bigWins" -> BigWinsCap

SequenceOf(kind) ==
    CASE kind = "visit" -> "visits"
      [] kind = "spin" -> "spins"
      [] kind = "freeSpins" -> "freeSpins"
      [] kind = "bigWin" -> "bigWins"
      [] OTHER -> "none"

\* the sequence k as the next request or query loads it
Stored(k) == readData(file)[k]

\* the last n entries of a sequence, all of it when it has no more
LastN(seq, n) ==
    IF Len(seq) <= n THEN seq
    ELSE [i \in 1..n |-> seq[Len(seq) - n + i]]

\* the records of sequence k that the requests of history l were acknowledged
\* for, in order
RECURSIVE Acknowledged(_, _)
Acknowledged(l, k) ==
    IF l = <<>> THEN <<>>
    ELSE LET e == l[Len(l)]
             before == Acknowledged(SubSeq(l, 1, Len(l) - 1), k)
         IN IF SequenceOf(e.kind) = k THEN Append(before, e.record) ELSE before

\* the records appended to sequence k one after another, each to the result
\* of the one before, since the sequence was last empty: a write that fails
\* leaves the file without the record, one that tears it leaves no sequence
RECURSIVE Appended(_, _)
Appended(l, k) ==
    IF l = <<>> THEN <<>>
    ELSE LET e == l[Len(l)]
             before == Appended(SubSeq(l, 1, Len(l) - 1), k)
         IN CASE e.write = "torn" -> <<>>
              [] e.write = "ok" /\ SequenceOf(e.kind) = k -> Append(before, e.record)
              [] OTHER -> before

\* C1: after any sequence of requests, accepted or rejected, no stored
\* sequence is longer than its cap
C1_WithinCaps == \A k \in Kinds : Len(Stored(k)) <= Cap(k)

\* a sequence is at its cap after more records than the cap were appended
C1_Witness ==
    /\ Len(Appended(log, "visits")) > VisitsCap
    /\ Len(Stored("visits")) = VisitsCap
    /\ resp.status = 200

\* C2: once more than cap records were appended to a sequence one after
\* another, it holds exactly cap records, the last cap appended, in order
C2_LastCapSurvive ==
    \A k \in Kinds :
        Len(Appended(log, k)) > Cap(k) =>
            /\ Len(Stored(k)) = Cap(k)
            /\ Stored(k) = LastN(Appended(log, k), Cap(k))

\* one more spin than the cap was appended and the oldest is gone
C2_Witness ==
    /\ Len(Appended(log, "spins")) = SpinsCap + 1
    /\ Stored("spins")[1] = Appended(log, "spins")[2]

\* a body with a top-level key other than eventType and data
ExtraTopLevelKey(body) ==
    /\ body.t \in {"object", "array"}
    /\ ~(ObjectKeys(body) \subseteq {"eventType", "data"})

\* the event kind a body names, "none" when it names none of the four
BodyKind(body) ==
    IF Get(body, "eventType").t = "string" THEN KindOf(Get(body, "eventType").s)
    ELSE "none"

\* a body of one of the four kinds whose data has a key outside the list of
\* fields allowed for the kind
ExtraDataKey(body) ==
    /\ BodyKind(body) # "none"
    /\ Get(body, "data").t \in {"object", "array"}
    /\ ~(ObjectKeys(Get(body, "data")) \subseteq EVENT_SCHEMAS[BodyKind(body)])

\* C3: a request with a top-level key other than eventType and data, or with a
\* data key outside the field list of its event kind, is answered 400, and
\* the file is left as it was
C3_UnknownKeysRejected ==
    /\ [](ExtraTopLevelKey(req) \/ ExtraDataKey(req) => resp.status = 400)
    /\ [][ExtraTopLevelKey(req') \/ ExtraDataKey(req') => file' = file]_vars

\* a spin with a field of another kind in its data was answered 400
C3_Witness ==
    /\ ExtraDataKey(req)
    /\ ~ExtraTopLevelKey(req)
    /\ BodyKind(req) = "spin"
    /\ "amount" \in ObjectKeys(Get(req, "data"))
    /\ resp = [status |-> 400, message |-> "Invalid data fields"]

\* C4: a request whose eventType is missing, no string, or a string other
\* than the four kinds is answered with a client error, whatever its data
C4_UnknownTypeRejected ==
    req.t = "object" /\ BodyKind(req) = "none" => resp.status \in 400..499

\* v parses to a finite number of [0, max]
ParsesWithin(v, max) ==
    /\ parseFloat(v).t = "number"
    /\ parseFloat(v).n >= 0
    /\ parseFloat(v).n <= max

\* the numeric fields the kind of a body requires parse within their bounds
NumericFieldsValid(body) ==
    CASE BodyKind(body) = "spin" ->
            /\ ParsesWithin(Get(Get(body, "data"), "bet"), 10000)
            /\ ParsesWithin(Get(Get(body, "data"), "win"), 10000000)
      [] BodyKind(body) = "freeSpins" ->
            ParsesWithin(Get(Get(body, "data"), "totalWin"), 10000000)
      [] BodyKind(body) = "bigWin" ->
            ParsesWithin(Get(Get(body, "data"), "amount"), 10000000)
      [] OTHER -> TRUE

\* a body that passes the structural checks: an object with no key but
\* eventType and data, of one of the four kinds, its data an object with no
\* key outside the fields of the kind
WellFormed(body) ==
    /\ body.t = "object"
    /\ ~ExtraTopLevelKey(body)
    /\ BodyKind(body) # "none"
    /\ Get(body, "data").t \in {"object", "array"}
    /\ ~ExtraDataKey(body)

\* the records the acknowledged requests built, by the sequence they go to
Built(k) == {log[i].record : i \in {j \in 1..Len(log) : SequenceOf(log[j].kind) = k}}

\* C5: a spin, a free spins round or a big win is accepted only if its numeric
\* fields parse to finite numbers within their bounds; otherwise it is
\* rejected as an invalid numeric field and the file is left as it was; so
\* the numeric fields of every record built are within the bounds
C5_NumericFieldsChecked ==
    /\ [](resp.status = 200 => NumericFieldsValid(req))
    /\ [](WellFormed(req) /\ ~NumericFieldsValid(req) =>
              /\ resp.status = 400
              /\ resp.message \in {"Invalid bet or win", "Invalid totalWin",
                                   "Invalid amount"})
    /\ [][~NumericFieldsValid(req') => file' = file]_vars
    /\ [](/\ \A r \in Built("spins") \cup Range(Stored("spins")) :
                r.bet \in 0..10000 /\ r.win \in 0..10000000
          /\ \A r \in Built("freeSpins") \cup Range(Stored("freeSpins")) :
                r.totalWin \in 0..10000000
          /\ \A r \in Built("bigWins") \cup Range(Stored("bigWins")) :
                r.amount \in 0..10000000)

\* a spin with bet "abc" was rejected as an invalid numeric field
C5_Witness ==
    /\ WellFormed(req)
    /\ BodyKind(req) = "spin"
    /\ Get(Get(req, "data"), "bet") = Str(<<97, 98, 99>>)
    /\ resp = [status |-> 400, message |-> "Invalid bet or win"]

\* C6: a request whose body is no object, an absent or a null body included,
\* is answered with a client error
C6_NonObjectRejected ==
    req # NoRequest /\ req.t \notin {"object", "array"} => resp.status \in 400..499

\* the characters sanitize is to remove: < > ' " & \ and the ASCII controls
Denylist == {60, 62, 39, 34, 38, 92} \cup (0..31) \cup {127}

\* a string of at most max code units, none of them denylisted
Clean(s, max) == Len(s) <= max /\ \A i \in 1..Len(s) : s[i] \notin Denylist

\* C7: what sanitize returns has no denylisted character and is no longer than
\* maxLength; so every text field of every record built is within its length
\* and free of denylisted characters, and a spin has at most 18 symbols
C7_SanitizedFieldsClean ==
    /\ sanOut # NoCall => Clean(sanOut.s, sanMax)
    /\ \A r \in Built("visits") \cup Range(Stored("visits")) :
          /\ Clean(r.sessionId, 50)
          /\ Clean(r.userAgent, 300)
          /\ Clean(r.screenSize, 20)
          /\ Clean(r.referrer, 200)
    /\ \A r \in Built("spins") \cup Range(Stored("spins")) :
          /\ Clean(r.sessionId, 50)
          /\ Len(r.symbols) <= 18
          /\ \A i \in 1..Len(r.symbols) : Clean(r.symbols[i], 20)
    /\ \A r \in Built("freeSpins") \cup Range(Stored("freeSpins")) :
          Clean(r.sessionId, 50) /\ Clean(r.mode, 20)
    /\ \A r \in Built("bigWins") \cup Range(Stored("bigWins")) :
          Clean(r.sessionId, 50)

\* the visit with sessionId "a<script>" is stored with sessionId "ascript"
C7_Witness ==
    /\ BodyKind(req) = "visit"
    /\ Get(Get(req, "data"), "sessionId") = Str(<<97, 60, 115, 99, 114, 105, 112, 116, 62>>)
    /\ Len(Stored("visits")) = 1
    /\ Stored("visits")[1].sessionId = <<97, 115, 99, 114, 105, 112, 116>>

\* C8: sanitizing what sanitize returned, with the same maxLength, returns it
\* unchanged
C8_SanitizeIdempotent ==
    sanOut # NoCall => sanitize(sanOut, sanMax) = sanOut.s

\* a call that cut its argument and removed a character from what was left
C8_Witness ==
    /\ sanOut # NoCall
    /\ sanIn.t = "string"
    /\ Len(sanIn.s) > sanMax
    /\ sanOut.s # <<>>
    /\ Len(sanOut.s) < sanMax

\* C9: a record acknowledged while its save failed is not lost: the write of
\* the next ingestion that is saved holds every record acknowledged so far
\* (the last cap of each sequence), and so do the loads after it.  Stated for
\* the failed saves that leave the file as it was
C9_FailedSaveNotLost ==
    /\ log # <<>>
    /\ log[Len(log)].write = "ok"
    /\ \A i \in 1..Len(log) : log[i].write # "torn"
    => \A k \in Kinds : Stored(k) = LastN(Acknowledged(log, k), Cap(k))

\* a body that passes validation: well formed, a visit with a sessionId, the
\* other kinds with their numeric fields valid
PassesValidation(body) ==
    /\ WellFormed(body)
    /\ BodyKind(body) = "visit" => Truthy(Get(Get(body, "data"), "sessionId"))
    /\ NumericFieldsValid(body)

\* C10: a request that passes validation is acknowledged with success, however
\* the write of the file ends
C10_SaveFailureNotSurfaced ==
    PassesValidation(req) => resp = [status |-> 200, message |-> "success"]

\* a valid request was acknowledged although its write failed and left no file
C10_Witness ==
    /\ PassesValidation(req)
    /\ log # <<>>
    /\ log[Len(log)].write = "failed"
    /\ file = NoFile
    /\ resp.status = 200

\* a file that does not load: missing, unparsable, or unreadable
LoadFails(f) == f.t \in {"missing", "torn", "unreadable"}

\* the answer of a query on a store with no record
EmptyAnswer(route, a) ==
    CASE route = "stats" ->
            /\ a.totalVisits = 0 /\ a.uniqueSessions = 0 /\ a.totalSpins = 0
            /\ a.totalWagered = Str(<<48, 46, 48, 48>>)
            /\ a.totalWon = Str(<<48, 46, 48, 48>>)
            /\ a.houseEdge = Num(0) /\ a.avgBet = Num(0) /\ a.fsTriggerRate = Num(0)
            /\ a.topSymbols = <<>>
            /\ a.bigWinCounts = [big |-> 0, mega |-> 0, epic |-> 0]
      [] route = "sessions" -> a.sessions = <<>>
      [] route = "spins" -> a.spins = <<>> /\ a.total = 0 /\ a.totalPages = 0
      [] route = "bigwins" -> a.bigWins = <<>>
      [] OTHER -> a.health = "ok"

\* C11: when the file does not load (missing, unparsable, unreadable), the
\* state used is four empty sequences and nothing is propagated: a valid
\* ingestion is acknowledged and, its write done, the file holds exactly its
\* record; every query is answered 200 as on an empty store
C11_LoadFailureDefaults ==
    /\ [](LoadFails(file) => readData(file) = EmptyStore)
    /\ [](LoadFails(file) /\ answer # NoAnswer =>
              answer.status = 200 /\ EmptyAnswer(query.route, answer))
    /\ [][LoadFails(file) /\ now' = now + 1 /\ PassesValidation(req') =>
              /\ resp'.status = 200
              /\ log'[Len(log')].write = "ok" =>
                    \A k \in Kinds :
                        readData(file')[k] =
                            IF k = SequenceOf(BodyKind(req'))
                            THEN <<log'[Len(log')].record>> ELSE <<>>]_vars

\* the write of a spin tore the file, and the stats asked next are those of
\* an empty store
C11_Witness ==
    /\ file = TornFile
    /\ log # <<>>
    /\ log[Len(log)].kind = "spin"
    /\ query.route = "stats"
    /\ answer.status = 200
    /\ answer.totalSpins = 0

C13_RoundTrip ==
    log # <<>> /\ log[Len(log)].write = "ok" =>
        /\ file.t = "json"
        /\ \A k \in Kinds :
              /\ Len(readData(file)[k]) = Len(log[Len(log)].analytics[k])
              /\ \A i \in 1..Len(readData(file)[k]) :
                    readData(file)[k][i] = log[Len(log)].analytics[k][i]

\* a visit whose sessionId the slice left with a lone surrogate at its end was
\* saved, in a document that writes it as an escape
C13_Witness ==
    /\ log # <<>>
    /\ log[Len(log)].write = "ok"
    /\ log[Len(log)].kind = "visit"
    /\ Len(log[Len(log)].record.sessionId) = 50
    /\ log[Len(log)].record.sessionId[50] = 55357
    /\ file.t = "json"
    /\ file.doc.visits[Len(file.doc.visits)].sessionId # <<34>> \o log[Len(log)].record.sessionId \o <<34>>
    /\ Len(readData(file).visits) >= 1

\* the sum of a field over the records of a sequence
SumOf(records, field) ==
    LET sum[i \in 0..Len(records)] ==
            IF i = 0 THEN 0 ELSE sum[i - 1] + records[i][field]
    IN sum[Len(records)]

\* a decimal with two digits after the point, such as -150.00
IsDecimal2(v) ==
    /\ v.t = "string"
    /\ LET d == IF v.s # <<>> /\ v.s[1] = 45 THEN Tail(v.s) ELSE v.s
       IN /\ Len(d) >= 4
          /\ d[Len(d) - 2] = 46
          /\ \A i \in (1..Len(d)) \ {Len(d) - 2} : d[i] \in 48..57

\* the hundredths it stands for: -150.00 is -15000
Hundredths(v) ==
    LET neg == v.s[1] = 45
        d == IF neg THEN Tail(v.s) ELSE v.s
        n == DigitsValue(SubSeq(d, 1, Len(d) - 3)) * 100
             + DigitsValue(SubSeq(d, Len(d) - 1, Len(d)))
    IN IF neg THEN 0 - n ELSE n

\* C14: the stats report totalSpins as the number of spins, totalWagered and
\* totalWon as the sums of bet and of win over them (with two decimals), and,
\* when totalWagered > 0, houseEdge as (totalWagered - totalWon) /
\* totalWagered * 100 to the nearest hundredth
C14_StatsTotals ==
    query.route = "stats" =>
        LET wagered == SumOf(Stored("spins"), "bet")
            won == SumOf(Stored("spins"), "win")
            edge == Hundredths(answer.houseEdge)
            off == edge * wagered - (wagered - won) * 10000
        IN /\ answer.totalSpins = Len(Stored("spins"))
           /\ IsDecimal2(answer.totalWagered)
           /\ Hundredths(answer.totalWagered) = wagered * 100
           /\ IsDecimal2(answer.totalWon)
           /\ Hundredths(answer.totalWon) = won * 100
           /\ wagered > 0 =>
                 /\ IsDecimal2(answer.houseEdge)
                 /\ 2 * off <= wagered /\ 2 * off >= 0 - wagered

\* two spins of bet 10 that won nothing and one that won 100: wagered 30,
\* won 100, house edge -233.33
C14_Witness ==
    /\ query.route = "stats"
    /\ Len(Stored("spins")) = 3
    /\ answer.totalSpins = 3
    /\ answer.totalWagered = Str(<<51, 48, 46, 48, 48>>)
    /\ answer.totalWon = Str(<<49, 48, 48, 46, 48, 48>>)
    /\ answer.houseEdge = Str(<<45, 50, 51, 51, 46, 51, 51>>)

\* C15: houseEdge is the number 0 when nothing was wagered, avgBet and
\* freeSpinsTriggerRate are the number 0 when there is no spin, and none of
\* the three is ever NaN or an infinity: each is 0 or a decimal
C15_NoDivisionByZero ==
    query.route = "stats" =>
        /\ SumOf(Stored("spins"), "bet") = 0 => answer.houseEdge = Num(0)
        /\ Stored("spins") = <<>> =>
              answer.avgBet = Num(0) /\ answer.fsTriggerRate = Num(0)
        /\ \A v \in {answer.houseEdge, answer.avgBet, answer.fsTriggerRate} :
              v = Num(0) \/ IsDecimal2(v)

\* no spin is stored but a free-spins trigger is, so that the rate would be
\* 1 / 0; the three values are 0
C15_Witness ==
    /\ query.route = "stats"
    /\ Stored("spins") = <<>>
    /\ Len(Stored("freeSpins")) = 1
    /\ answer.totalSpins = 0
    /\ answer.houseEdge = Num(0)
    /\ answer.avgBet = Num(0)
    /\ answer.fsTriggerRate = Num(0)

\* the places of the stored spins where a symbol stands: spin i, position j
Occurrences(sym) ==
    {p \in UNION {{<<i, j>> : j \in 1..Len(Stored("spins")[i].symbols)} :
                     i \in 1..Len(Stored("spins"))} :
        Stored("spins")[p[1]].symbols[p[2]] = sym}

\* the symbols of the stored spins
StoredSymbols ==
    UNION {Range(Stored("spins")[i].symbols) : i \in 1..Len(Stored("spins"))}

\* C16: topSymbols has at most 10 pairs, each of a symbol of the stored spins
\* with the number of its occurrences, in non-increasing order of that number,
\* and no symbol left out occurs more often than a listed one
C16_TopSymbols ==
    query.route = "stats" =>
        LET top == answer.topSymbols
            listed == {top[i].key : i \in 1..Len(top)}
        IN /\ Len(top) <= 10
           /\ \A i \in 1..Len(top) :
                 /\ top[i].key \in StoredSymbols
                 /\ top[i].value = Num(Cardinality(Occurrences(top[i].key)))
           /\ \A i, j \in 1..Len(top) :
                 i < j => Cardinality(Occurrences(top[i].key))
                             >= Cardinality(Occurrences(top[j].key))
           /\ \A sym \in StoredSymbols \ listed : \A other \in listed :
                 Cardinality(Occurrences(sym)) <= Cardinality(Occurrences(other))

\* place p comes before place q in the scan: an older spin, or the same spin
\* and further left
ScannedBefore(p, q) == p[1] < q[1] \/ (p[1] = q[1] /\ p[2] < q[2])

\* the place where a symbol of the stored spins is seen first
FirstSeen(sym) ==
    CHOOSE p \in Occurrences(sym) :
        \A q \in Occurrences(sym) : p = q \/ ScannedBefore(p, q)

\* C17: of two listed symbols that occur equally often, the one seen first in
\* the scan of the spins (oldest spin first, left to right) is listed first
C17_TiesFirstSeen ==
    query.route = "stats" =>
        LET top == answer.topSymbols
        IN \A i, j \in 1..Len(top) :
              /\ i < j
              /\ top[i].key \in StoredSymbols
              /\ top[j].key \in StoredSymbols
              /\ Cardinality(Occurrences(top[i].key))
                    = Cardinality(Occurrences(top[j].key))
              => ScannedBefore(FirstSeen(top[i].key), FirstSeen(top[j].key))

\* the stored spins of a session
SpinsOfSession(id) == SelectSeq(Stored("spins"), LAMBDA s : s.sessionId = id)

\* C18: every rollup the sessions query lists has the timestamp of the first
\* stored visit of its sessionId as start time, the number, the sum of bet
\* and the sum of win of the stored spins of that sessionId as spins, wagered
\* and won, won - wagered as net result, and the device Mobile exactly when
\* the userAgent of that first visit contains "Mobile"; the rollups are in
\* non-increasing order of start time and at most limit are listed
C18_SessionRollups ==
    query.route = "sessions" =>
        LET rs == answer.sessions
            visits == Stored("visits")
        IN /\ Len(rs) <= answer.limit
           /\ \A i, j \in 1..Len(rs) : i < j => rs[i].startTime >= rs[j].startTime
           /\ \A k \in 1..Len(rs) :
                 \E f \in 1..Len(visits) :
                    /\ visits[f].sessionId = rs[k].sessionId
                    /\ \A i \in 1..(f - 1) : visits[i].sessionId # rs[k].sessionId
                    /\ rs[k].startTime = visits[f].timestamp
                    /\ rs[k].spins = Len(SpinsOfSession(rs[k].sessionId))
                    /\ rs[k].wagered = SumOf(SpinsOfSession(rs[k].sessionId), "bet")
                    /\ rs[k].won = SumOf(SpinsOfSession(rs[k].sessionId), "win")
                    /\ IsDecimal2(Str(rs[k].netResult))
                    /\ Hundredths(Str(rs[k].netResult))
                          = (rs[k].won - rs[k].wagered) * 100
                    /\ rs[k].device \in {S_Mobile, S_Desktop}
                    /\ rs[k].device = S_Mobile <=>
                          \E a \in 1..Len(visits[f].userAgent) :
                             /\ a + 5 <= Len(visits[f].userAgent)
                             /\ SubSeq(visits[f].userAgent, a, a + 5) = S_Mobile

\* two visits of one session from a mobile browser and one spin of it that
\* lost its bet of 10: one rollup, started at the first visit
C18_Witness ==
    /\ query.route = "sessions"
    /\ Len(Stored("visits")) = 2
    /\ Stored("visits")[1].sessionId = Stored("visits")[2].sessionId
    /\ Len(SpinsOfSession(Stored("visits")[1].sessionId)) = 1
    /\ Len(answer.sessions) = 1
    /\ answer.sessions[1].startTime = Stored("visits")[1].timestamp
    /\ answer.sessions[1].startTime # Stored("visits")[2].timestamp
    /\ answer.sessions[1].spins = 1
    /\ answer.sessions[1].wagered = 10
    /\ answer.sessions[1].netResult = <<45, 49, 48, 46, 48, 48>>
    /\ answer.sessions[1].device = S_Mobile

\* the stored spins from the most recent to the oldest
SpinsMostRecentFirst ==
    [k \in 1..Len(Stored("spins")) |-> Stored("spins")[Len(Stored("spins")) + 1 - k]]

\* what GET /spins answers for page p and the limit of the last query, on the
\* store as it is
PageOfSpins(p) == SpinsQuery(readData(file), Str(NatToStr(p)), query.q.limit)

\* C19: the spins query reports total as the number of stored spins and
\* totalPages as total / limit rounded up; the page it answers holds the spins
\* most recent first from place (page - 1) * limit + 1 to place page * limit,
\* as far as there are any; for the same store and limit the pages 1 to
\* totalPages one after the other are the stored spins most recent first, and
\* the page after the last is empty
C19_SpinsPagination ==
    query.route = "spins" =>
        LET total == Len(Stored("spins"))
            limit == answer.limit
            before == (answer.page - 1) * limit
            pages == answer.totalPages
            upTo[p \in 0..pages] ==
                IF p = 0 THEN <<>> ELSE upTo[p - 1] \o PageOfSpins(p).spins
        IN /\ answer.total = total
           /\ pages * limit >= total
           /\ (pages - 1) * limit < total
           /\ Len(answer.spins) = Max(0, Min(limit, total - before))
           /\ \A k \in 1..Len(answer.spins) :
                 answer.spins[k] = SpinsMostRecentFirst[before + k]
           /\ answer.page > pages => answer.spins = <<>>
           /\ upTo[pages] = SpinsMostRecentFirst
           /\ \A p \in 1..pages :
                 PageOfSpins(p).limit = limit /\ PageOfSpins(p).spins # <<>>
           /\ PageOfSpins(pages + 1).spins = <<>>

\* three spins stored, limit 2, page 2: the second and last page holds the
\* oldest spin alone
C19_Witness ==
    /\ query.route = "spins"
    /\ Len(Stored("spins")) = 3
    /\ answer.limit = 2
    /\ answer.page = 2
    /\ answer.total = 3
    /\ answer.totalPages = 2
    /\ answer.spins = <<Stored("spins")[1]>>
    /\ PageOfSpins(1).spins = <<Stored("spins")[3], Stored("spins")[2]>>

\* a query parameter that is the text of an integer: digits, or - and digits
IsIntegerText(v) ==
    /\ v.t = "string"
    /\ LET d == IF v.s # <<>> /\ v.s[1] = 45 THEN Tail(v.s) ELSE v.s
       IN d # <<>> /\ \A i \in 1..Len(d) : d[i] \in 48..57

\* the integer it is the text of
IntegerText(v) ==
    IF v.s[1] = 45 THEN 0 - DigitsValue(Tail(v.s)) ELSE DigitsValue(v.s)

\* C20: in the sessions, spins and big-wins queries the effective limit is
\* the supplied integer brought into 1..200 (1 for 0 and below, 200 above
\* 200) and 50 when no limit or no number is supplied; the effective page of
\* the spins query is the supplied integer raised to at least 1, and 1 when
\* none is supplied
C20_LimitAndPage ==
    query.route \in {"sessions", "spins", "bigwins"} =>
        /\ answer.limit =
              IF IsIntegerText(query.q.limit)
              THEN Min(Max(1, IntegerText(query.q.limit)), 200)
              ELSE 50
        /\ query.route = "spins" =>
              answer.page =
                 IF IsIntegerText(query.q.page)
                 THEN Max(1, IntegerText(query.q.page))
                 ELSE 1

\* seq with a record added at the end and then, if that is more than cap, as
\* many dropped from the front as there are too many
AddedAtEnd(seq, record, cap) ==
    LET all == seq \o <<record>>
        tooMany == IF Len(all) > cap THEN Len(all) - cap ELSE 0
    IN [i \in 1..(Len(all) - tooMany) |-> all[tooMany + i]]

\* C21: when the file loads, an accepted request of kind K hands to
\* writeData a store whose three other sequences are those loaded and whose
\* sequence of K is the one loaded with the new record added at the end and,
\* only if that exceeds the cap, the oldest dropped; when the write succeeds
\* that is the store the file holds afterwards
C21_OnlyOwnSequence ==
    [][~LoadFails(file) /\ Len(log') = Len(log) + 1 =>
          LET e == log'[Len(log')]
          IN \A k \in Kinds :
                /\ e.analytics[k] =
                      IF k = SequenceOf(e.kind)
                      THEN AddedAtEnd(Stored(k), e.record, Cap(k))
                      ELSE Stored(k)
                /\ e.write = "ok" => readData(file')[k] = e.analytics[k]]_vars

\* a visit and a free-spins round are stored; a second round is accepted and
\* saved: it takes the place of the first (the cap is 1) and the visit stays
C21_Witness ==
    /\ Len(log) >= 3
    /\ log[Len(log)].kind = "freeSpins"
    /\ log[Len(log)].write = "ok"
    /\ log[Len(log) - 1].write = "ok"
    /\ Len(log[Len(log) - 1].analytics.freeSpins) = FreeSpinsCap
    /\ log[Len(log) - 1].analytics.visits # <<>>
    /\ Stored("visits") = log[Len(log) - 1].analytics.visits
    /\ Len(Stored("freeSpins")) = FreeSpinsCap
    /\ Stored("freeSpins")[FreeSpinsCap] = log[Len(log)].record
    /\ log[Len(log) - 1].analytics.freeSpins[1] \notin Range(Stored("freeSpins"))

\* C22: a request to POST /track answered 4xx, and a query (stats, sessions,
\* spins, bigwins, health), leave the file as it was and call writeData not
\* once
C22_RejectionsAndQueriesWriteNothing ==
    [][(now' = now + 1 /\ resp'.status \in 400..499)
       \/ (now' = now /\ query' # NoQuery)
       => file' = file /\ log' = log]_vars

\* on a file written by an earlier run, a spin with a bet above the maximum
\* was rejected and the stats were asked: the file is the one found at start
C22_Witness ==
    /\ now = 1
    /\ resp = [status |-> 400, message |-> "Invalid bet or win"]
    /\ query.route = "stats"
    /\ answer.status = 200
    /\ answer.totalVisits > 0
    /\ file = SeedFile
    /\ log = <<>>

\* the three tiers
TierNames == {S_big, S_mega, S_epic}

\* the tier a big win is to be stored with: the one given if it is one of
\* the three, big otherwise
TierToStore(v) == IF v.t = "string" /\ v.s \in TierNames THEN v.s ELSE S_big

\* the spinsCount a free-spins round is to be stored with: the number given
\* if it parses within [0, 100], 0 otherwise
CountToStore(v) == IF ParsesWithin(v, 100) THEN parseFloat(v).n ELSE 0

\* C23: a big win that is valid but for its tier, and a free-spins round that
\* is valid but for its spinsCount, are acknowledged and stored, the tier as
\* big when it is missing or none of big, mega, epic, the spinsCount as 0 when
\* it is missing, does not parse or lies outside [0, 100]; so every big win
\* built or stored has one of the three tiers and every free-spins round a
\* spinsCount of [0, 100]
C23_DefaultsNotRejections ==
    /\ PassesValidation(req) /\ BodyKind(req) \in {"bigWin", "freeSpins"} =>
          /\ resp.status = 200
          /\ log # <<>>
          /\ log[Len(log)].kind = BodyKind(req)
          /\ BodyKind(req) = "bigWin" =>
                log[Len(log)].record.tier = TierToStore(Get(Get(req, "data"), "tier"))
          /\ BodyKind(req) = "freeSpins" =>
                log[Len(log)].record.spinsCount
                   = CountToStore(Get(Get(req, "data"), "spinsCount"))
          /\ log[Len(log)].write = "ok" =>
                LET seq == Stored(SequenceOf(BodyKind(req)))
                IN seq # <<>> /\ seq[Len(seq)] = log[Len(log)].record
    /\ \A r \in Built("bigWins") \cup Range(Stored("bigWins")) : r.tier \in TierNames
    /\ \A r \in Built("freeSpins") \cup Range(Stored("freeSpins")) :
          r.spinsCount \in 0..100

\* a free-spins round with spinsCount 101 was acknowledged and is stored with
\* spinsCount 0
C23_Witness ==
    /\ BodyKind(req) = "freeSpins"
    /\ Get(Get(req, "data"), "spinsCount") = Num(101)
    /\ resp.status = 200
    /\ log # <<>>
    /\ log[Len(log)].write = "ok"
    /\ Stored("freeSpins") # <<>>
    /\ Stored("freeSpins")[Len(Stored("freeSpins"))].spinsCount = 0
    /\ Stored("freeSpins")[Len(Stored("freeSpins"))].timestamp = now - 1

\* C24: every visit built by an acknowledged request, and every visit
\* stored, has a sessionId that is not the empty string
C24_VisitSessionIdNonEmpty ==
    \A r \in Built("visits") \cup Range(Stored("visits")) : r.sessionId # <<>>

\* the sessionIds of the stored visits
VisitSessionIds ==
    {Stored("visits")[i].sessionId : i \in 1..Len(Stored("visits"))}

\* C25: on the same store, GET /stats reports as uniqueSessions the number of
\* distinct sessionIds of the visits, and GET /sessions lists as many
\* rollups as that, or as its limit if that is less, one for each sessionId
C25_SessionViewsAgree ==
    /\ query.route = "stats" =>
          answer.uniqueSessions = Cardinality(VisitSessionIds)
    /\ query.route = "sessions" =>
          /\ Len(answer.sessions)
                = Min(answer.limit, StatsQuery(readData(file)).uniqueSessions)
          /\ \A i, j \in 1..Len(answer.sessions) :
                i # j => answer.sessions[i].sessionId # answer.sessions[j].sessionId

====
